---- MODULE Spec2Model ----
(***************************************************************************)
(* Model of the chess-openings-trainer core: the repertoire trees          *)
(* (core/repertoire.py), the SM-2 scheduler (core/srs.py), the training    *)
(* coordinator (core/trainer.py) and the JSON documents the stores are     *)
(* saved to and loaded from (core/persistence.py).                         *)
(*                                                                         *)
(* Representation choices                                                  *)
(*  - A Python dict is a sequence of entries in insertion order (dicts     *)
(*    iterate in insertion order and sorted() is stable, so the order is   *)
(*    observable through due_cards / next_card).                           *)
(*  - A date is a day number; date.today() is the clock variable now.      *)
(*  - ease is a float in the code; the model keeps it in hundredths        *)
(*    (2.5 -> 250).  Every ease the code produces is a multiple of 0.02,   *)
(*    so interval * ease is a multiple of 0.02 and round() is decided by   *)
(*    the hundredths except on an exact decimal tie (x.50), where the      *)
(*    double's rounding error decides; there the model admits both         *)
(*    neighbours.                                                          *)
(*  - Optional[...] fields use None (-1), which is no grade and no date.   *)
(*  - A document is its parsed content: missing, not JSON, JSON that is    *)
(*    no object, or an object with its entries in file order; a JSON value *)
(*    of a card field is a tagged record, so that writing and reading a    *)
(*    field are conversions between the card and the document.             *)
(***************************************************************************)
EXTENDS Integers, Sequences, FiniteSets, TLC

\* ---------------------------------------------------------------- bounds
MaxDay      == 1    \* the clock runs over days 0..MaxDay
MaxSched    == 1    \* grading calls explored in the system specification
MaxReps     == 3    \* longest streak explored in the single-card specification
MaxEase     == 262  \* highest ease explored in the single-card specification
MaxCalls    == 4    \* schedule calls recorded on a fresh card
MaxPrior    == 1    \* schedule calls recorded on an arbitrary prior card
MaxInterval == 6    \* largest interval of an arbitrary prior card
MaxAnswers  == 2    \* grade_answer calls explored in the training specification
MaxGames    == 2    \* games in an imported PGN file
MaxCards    == 2    \* cards in the store whose statistics are taken
MaxHorizon  == 1    \* largest horizon_days passed to statistics

\* ------------------------------------------------------- program constants
DEFAULT_EASE == 250
MIN_EASE     == 130
None         == -1
NoText       == "None"

Grades == 0..5
\* grades used in the system specification: the failure grade and the success
\* grade the application passes (every grade is used in the single-card ones)
SysGrades == {1, 5}
Sides  == {"white", "black"}
Days   == 0..MaxDay

\* ------------------------------------------- chess-rules provider (fixture)
\* Positions are FEN strings in the code; three positions of a small game:
\* 0 --Na3--> 1, 0 --Nc3--> 2, 1 --Nc3--> 2; position 2 has no legal move.
Fens     == {0, 1, 2}
\* positions handed to the scheduler directly: 0 and 1 are tree keys once a
\* line through them is imported and orphans before
CardFens == {0, 1}
MoveObjs == {"a", "c"}

Target(fen, move) ==
    IF fen = 0 /\ move = "a" THEN 1
    ELSE IF fen = 0 /\ move = "c" THEN 2
    ELSE IF fen = 1 /\ move = "c" THEN 2
    ELSE None

IsLegal(fen, move) == Target(fen, move) # None

\* board.san(move): canonical algebraic notation of a move object
San(move) == IF move = "a" THEN "Na3" ELSE "Nc3"

\* move.uci(): coordinate notation of a move object
Uci(move) == IF move = "a" THEN "b1a3" ELSE "b1c3"

\* ------------------------------------------------------------ dict helpers
Keys(d) == {d[i].fen : i \in DOMAIN d}

KeyList(d) == [i \in DOMAIN d |-> d[i].fen]

IndexOf(d, fen) == CHOOSE i \in DOMAIN d : d[i].fen = fen

Lookup(d, fen) == d[IndexOf(d, fen)]

EmptyMap == [x \in {} |-> None]

Put(f, k, v) == [x \in (DOMAIN f) \cup {k} |-> IF x = k THEN v ELSE f[x]]

\* ------------------------------------------------------------------ state
VARIABLES
    white_tree,   \* RepertoireManager._white_tree
    black_tree,   \* RepertoireManager._black_tree
    cards,        \* SRSManager._cards
    now,          \* date.today()
    nsched,       \* number of grading calls made so far
    last,         \* the last call: operation, arguments and result
    hist,         \* SpecSchedule: the first card, then every call and its card
    disk,         \* the documents: repertoire_white.json, repertoire_black.json,
                  \* srs_state.json
    gui,          \* MainWindow: its own RepertoireManager, current_card, training_side
    threads       \* callers that run sync, schedule and add_line step by step

vars == <<white_tree, black_tree, cards, now, nsched, last, hist, disk, gui, threads>>

\* ------------------------------------------------------------- repertoire
TreeOf(side, wt, bt) == IF side = "white" THEN wt ELSE bt

\* tree.get(fen, {})
TreeGet(tree, fen) == IF fen \in Keys(tree) THEN Lookup(tree, fen).moves ELSE EmptyMap

\* mutant: a position keeps only the move written last
SetMoveAlone(tree, fen, san, fen_after) ==
    IF fen \in Keys(tree)
    THEN [tree EXCEPT ![IndexOf(tree, fen)].moves = Put(EmptyMap, san, fen_after)]
    ELSE Append(tree, [fen |-> fen, moves |-> Put(EmptyMap, san, fen_after)])

\* tree.setdefault(fen_before, {})[san_move] = fen_after
SetMove(tree, fen, san, fen_after) ==
    IF fen \in Keys(tree)
    THEN [tree EXCEPT ![IndexOf(tree, fen)].moves = Put(@, san, fen_after)]
    ELSE Append(tree, [fen |-> fen, moves |-> Put(EmptyMap, san, fen_after)])

\* The loop of add_line: every ply is written to the tree as it is walked;
\* board.san(move) raises on an illegal move and the loop stops there.
RECURSIVE WalkLine(_, _, _)
WalkLine(tree, fen, moves) ==
    IF moves = << >> THEN [tree |-> tree, raised |-> FALSE]
    ELSE IF ~IsLegal(fen, Head(moves)) THEN [tree |-> tree, raised |-> TRUE]
    ELSE WalkLine(SetMove(tree, fen, San(Head(moves)), Target(fen, Head(moves))),
                  Target(fen, Head(moves)), Tail(moves))

\* The games of a PGN file, each the movetext of one game played from the
\* starting position: "x" is a token that is no move at all, and the second
\* move of <<"a", "a">> is illegal where it is played.
PgnGames == {<<"a">>, <<"c">>, <<"a", "c">>, <<"a", "a">>, <<"x">>}

\* The loop of import_pgn_white / import_pgn_black over the games left in the
\* file: the outcomes [tree, count, raised].  A game whose movetext is sound
\* is added and counted.  For a game whose movetext fails at some ply the PGN
\* reader (not part of the repository) either returns the game with the moves
\* before the failure, and the game is added and counted like any other; or
\* the failure surfaces as an exception, from add_line after the earlier
\* plies are written or from the reader before any is, and the exception
\* leaves the loop: no later game is read and no count is returned.
RECURSIVE ImportGames(_, _, _)
ImportGames(tree, games, count) ==
    IF games = << >> THEN {[tree |-> tree, count |-> count, raised |-> FALSE]}
    ELSE LET line == WalkLine(tree, 0, Head(games))
         IN  IF ~line.raised
             THEN ImportGames(line.tree, Tail(games), count + 1)
             ELSE ImportGames(line.tree, Tail(games), count + 1)
                  \cup {[tree |-> line.tree, count |-> None, raised |-> TRUE],
                        [tree |-> tree, count |-> None, raised |-> TRUE]}

\* ---------------------------------------------------------------- scheduler
\* mutant: a new card starts with interval 1
NewCardIntervalOne(fen, today) ==
    [fen |-> fen, ease |-> DEFAULT_EASE, interval |-> 1, repetitions |-> 0,
     due |-> today, last_grade |-> None, last_reviewed |-> None]

NewCard(fen, today) ==
    [fen |-> fen, ease |-> DEFAULT_EASE, interval |-> 0, repetitions |-> 0,
     due |-> today, last_grade |-> None, last_reviewed |-> None]

\* mutant: get starts the card of a known position over
GetCardsAnew(cs, fen, today) ==
    IF fen \in Keys(cs)
    THEN [cs EXCEPT ![IndexOf(cs, fen)] = NewCard(fen, today)]
    ELSE Append(cs, NewCard(fen, today))

\* SRSManager.get: the card map after the call
GetCards(cs, fen, today) ==
    IF fen \in Keys(cs) THEN cs ELSE Append(cs, NewCard(fen, today))

\* round(x) for x = x100 / 100: the nearest integers of x
RoundNearest(x100) ==
    LET fl  == x100 \div 100
        rem == x100 % 100
    IN  IF rem < 50 THEN {fl} ELSE IF rem > 50 THEN {fl + 1} ELSE {fl, fl + 1}

\* mutant: the ease is left out of the product
GrownIntervalNoEase(card) ==
    {IF v = 0 THEN 1 ELSE v : v \in RoundNearest(card.interval * 100)}

\* int(round(card.interval * card.ease)) or 1
GrownInterval(card) ==
    {IF v = 0 THEN 1 ELSE v : v \in RoundNearest(card.interval * card.ease)}

Max(a, b) == IF a >= b THEN a ELSE b

\* mutant: the ease has no floor
NewEaseNoFloor(ease, grade) == ease + 10 - (5 - grade) * 8

NewEase(ease, grade) == Max(MIN_EASE, ease + 10 - (5 - grade) * 8)

\* mutant: the interval grows by the ease as updated by this call
NewIntervalsNewEase(card, grade) ==
    IF grade < 3 THEN {1}
    ELSE IF card.repetitions = 0 THEN {1}
    ELSE IF card.repetitions = 1 THEN {6}
    ELSE GrownInterval([card EXCEPT !.ease = NewEase(card.ease, grade)])

\* mutant: a failed card is due again on the day of the review
NewIntervalsRelearnToday(card, grade) ==
    IF grade < 3 THEN {0}
    ELSE IF card.repetitions = 0 THEN {1}
    ELSE IF card.repetitions = 1 THEN {6}
    ELSE GrownInterval(card)

NewIntervals(card, grade) ==
    IF grade < 3 THEN {1}
    ELSE IF card.repetitions = 0 THEN {1}
    ELSE IF card.repetitions = 1 THEN {6}
    ELSE GrownInterval(card)

\* mutant: a failure leaves the streak as it was
ScheduledKeepStreak(card, grade, today, iv) ==
    [fen           |-> card.fen,
     ease          |-> IF grade < 3 THEN card.ease ELSE NewEase(card.ease, grade),
     interval      |-> iv,
     repetitions   |-> IF grade < 3 THEN card.repetitions ELSE card.repetitions + 1,
     due           |-> today + iv,
     last_grade    |-> grade,
     last_reviewed |-> today]

\* mutant: the ease is updated on every grade, as in textbook SM-2
ScheduledEaseAlways(card, grade, today, iv) ==
    [fen           |-> card.fen,
     ease          |-> NewEase(card.ease, grade),
     interval      |-> iv,
     repetitions   |-> IF grade < 3 THEN 0 ELSE card.repetitions + 1,
     due           |-> today + iv,
     last_grade    |-> grade,
     last_reviewed |-> today]

\* mutant: due is computed from the interval the card had before the call
ScheduledStaleDue(card, grade, today, iv) ==
    [fen           |-> card.fen,
     ease          |-> IF grade < 3 THEN card.ease ELSE NewEase(card.ease, grade),
     interval      |-> iv,
     repetitions   |-> IF grade < 3 THEN 0 ELSE card.repetitions + 1,
     due           |-> today + card.interval,
     last_grade    |-> grade,
     last_reviewed |-> today]

\* the body of SRSManager.schedule on one card, for a chosen interval
Scheduled(card, grade, today, iv) ==
    [fen           |-> card.fen,
     ease          |-> IF grade < 3 THEN card.ease ELSE NewEase(card.ease, grade),
     interval      |-> iv,
     repetitions   |-> IF grade < 3 THEN 0 ELSE card.repetitions + 1,
     due           |-> today + iv,
     last_grade    |-> grade,
     last_reviewed |-> today]

ScheduleResults(card, grade, today) ==
    {Scheduled(card, grade, today, iv) : iv \in NewIntervals(card, grade)}

\* mutant: the graded card is stored as one more entry
StoreCardApart(cs, card) == Append(cs, card)

\* self._cards[fen] = card (an existing key keeps its place in the dict)
StoreCard(cs, card) == [cs EXCEPT ![IndexOf(cs, card.fen)] = card]

\* SRSManager.remove_cards: the card map after the call
RemoveFrom(cs, keep) == SelectSeq(cs, LAMBDA c : c.fen \in keep)

\* mutant: the sort key is the due date alone
KeyLessDueOnly(c1, c2) == c1.due < c2.due

\* sort key (c.due, c.ease), compared as Python compares tuples
KeyLess(c1, c2) == c1.due < c2.due \/ (c1.due = c2.due /\ c1.ease < c2.ease)

\* stable insertion: c goes after every element that is not greater than it
RECURSIVE InsertSorted(_, _)
InsertSorted(sorted, c) ==
    IF sorted = << >> THEN <<c>>
    ELSE IF KeyLess(c, Head(sorted)) THEN <<c>> \o sorted
    ELSE <<Head(sorted)>> \o InsertSorted(Tail(sorted), c)

RECURSIVE SortCards(_)
SortCards(cs) ==
    IF cs = << >> THEN << >>
    ELSE InsertSorted(SortCards(SubSeq(cs, 1, Len(cs) - 1)), cs[Len(cs)])

\* SRSManager.due_cards
due_cards(cs, today) == SortCards(SelectSeq(cs, LAMBDA c : c.due <= today))

\* --------------------------------------------------------------- coordinator
\* the card map after the get loop of sync_with_repertoire
RECURSIVE GetAll(_, _, _)
GetAll(cs, fens, today) ==
    IF fens = << >> THEN cs
    ELSE GetAll(GetCards(cs, Head(fens), today), Tail(fens), today)

\* mutant: sync creates the missing cards and removes none
SyncCardsNoRemove(cs, wt, bt, today) ==
    GetAll(cs, KeyList(wt) \o KeyList(bt), today)

SyncCards(cs, wt, bt, today) ==
    LET all_fens == KeyList(wt) \o KeyList(bt)
    IN  RemoveFrom(GetAll(cs, all_fens, today), {all_fens[i] : i \in DOMAIN all_fens})

\* mutant: the side is ignored and the first due card is returned
next_cardAnySide(cs, wt, bt, side, today) ==
    IF due_cards(cs, today) = << >> THEN << >> ELSE <<Head(due_cards(cs, today))>>

\* Trainer.next_card: the selected card as a sequence of length 0 or 1
next_card(cs, wt, bt, side, today) ==
    LET allowed == Keys(TreeOf(side, wt, bt))
        due     == SelectSeq(due_cards(cs, today), LAMBDA c : c.fen \in allowed)
    IN  IF due = << >> THEN << >> ELSE <<Head(due)>>

\* mutant: a position without moves in the side's tree is answered from the
\* other tree
available_movesAnySide(wt, bt, fen, side) ==
    IF DOMAIN TreeGet(TreeOf(side, wt, bt), fen) # {}
    THEN TreeGet(TreeOf(side, wt, bt), fen)
    ELSE TreeGet(TreeOf(IF side = "white" THEN "black" ELSE "white", wt, bt), fen)

\* Trainer.available_moves: the mapping at fen (its sorted order is presentation)
available_moves(wt, bt, fen, side) == TreeGet(TreeOf(side, wt, bt), fen)

\* raw answers typed by the learner
Texts == {"Na3", " Nc3 ", "b1a3", "B1C3", "Nh3", ""}

\* str.strip()
Strip(text) == IF text = " Nc3 " THEN "Nc3" ELSE text

\* str.lower()
Lower(text) ==
    IF text = "B1C3" THEN "b1c3"
    ELSE IF text = "Na3" THEN "na3"
    ELSE IF text = "Nc3" THEN "nc3"
    ELSE IF text = "Nh3" THEN "nh3"
    ELSE text

\* board.parse_san(text): the legal moves the text names (none: ValueError)
ParseSan(fen, text) == {m \in MoveObjs : IsLegal(fen, m) /\ San(m) = text}

\* chess.Move.from_uci(text): the moves the text names (none: ValueError);
\* legality is not looked at
FromUci(text) == {m \in MoveObjs : Uci(m) = text}

\* mutant: coordinate notation is not tried
normalize_moveSanOnly(fen, move_text) ==
    LET text == Strip(move_text)
        san  == ParseSan(fen, text)
    IN  IF text = "" THEN NoText
        ELSE IF san # {} THEN San(CHOOSE m \in san : TRUE)
        ELSE NoText

\* mutant: a move given in coordinate notation is not checked for legality
normalize_moveNoLegality(fen, move_text) ==
    LET text == Strip(move_text)
        san  == ParseSan(fen, text)
        uci  == FromUci(Lower(text))
    IN  IF text = "" THEN NoText
        ELSE IF san # {} THEN San(CHOOSE m \in san : TRUE)
        ELSE IF uci = {} THEN NoText
        ELSE San(CHOOSE m \in uci : TRUE)

\* Trainer._normalize_move
normalize_move(fen, move_text) ==
    LET text == Strip(move_text)
        san  == ParseSan(fen, text)
        uci  == FromUci(Lower(text))
    IN  IF text = "" THEN NoText
        ELSE IF san # {} THEN San(CHOOSE m \in san : TRUE)
        ELSE IF uci = {} THEN NoText
        ELSE IF ~IsLegal(fen, CHOOSE m \in uci : TRUE) THEN NoText
        ELSE San(CHOOSE m \in uci : TRUE)

\* --------------------------------------------------------------- statistics
\* a quotient of two integers, kept exact: success / len(graded_cards) and
\* fmean(ease) are floats in the code
Ratio(num, den) == [num |-> num, den |-> den]

\* sum(card.ease for card in cards)
RECURSIVE SumEase(_)
SumEase(cs) == IF cs = << >> THEN 0 ELSE Head(cs).ease + SumEase(Tail(cs))

\* SRSManager.Stats for an empty store; also the value of a call that
\* returns no statistics
NoStats ==
    [total_cards |-> 0, due_today |-> 0, overdue |-> 0, due_within_horizon |-> 0,
     horizon_days |-> 0, average_ease |-> Ratio(0, 1),
     last_session_success_rate |-> Ratio(0, 1)]

\* mutant: a card counts as graded when its grade is truthy
statisticsGradedTruthy(cs, today, horizon_days) ==
    LET graded  == {i \in DOMAIN cs : cs[i].last_grade # None /\ cs[i].last_grade # 0}
        success == {i \in graded : cs[i].last_grade >= 3}
    IN  IF cs = << >> THEN [NoStats EXCEPT !.horizon_days = horizon_days]
        ELSE [total_cards |-> Len(cs),
              due_today |-> Cardinality({i \in DOMAIN cs : cs[i].due <= today}),
              overdue |-> Cardinality({i \in DOMAIN cs : cs[i].due < today}),
              due_within_horizon |->
                  Cardinality({i \in DOMAIN cs :
                      today <= cs[i].due /\ cs[i].due <= today + horizon_days}),
              horizon_days |-> horizon_days,
              average_ease |-> Ratio(SumEase(cs), Len(cs)),
              last_session_success_rate |->
                  IF graded # {} THEN Ratio(Cardinality(success), Cardinality(graded))
                  ELSE Ratio(0, 1)]

\* SRSManager.statistics(today, horizon_days)
statistics(cs, today, horizon_days) ==
    LET graded  == {i \in DOMAIN cs : cs[i].last_grade # None}
        success == {i \in graded : cs[i].last_grade # 0 /\ cs[i].last_grade >= 3}
    IN  IF cs = << >> THEN [NoStats EXCEPT !.horizon_days = horizon_days]
        ELSE [total_cards |-> Len(cs),
              due_today |-> Cardinality({i \in DOMAIN cs : cs[i].due <= today}),
              overdue |-> Cardinality({i \in DOMAIN cs : cs[i].due < today}),
              due_within_horizon |->
                  Cardinality({i \in DOMAIN cs :
                      today <= cs[i].due /\ cs[i].due <= today + horizon_days}),
              horizon_days |-> horizon_days,
              average_ease |-> Ratio(SumEase(cs), Len(cs)),
              last_session_success_rate |->
                  IF graded # {} THEN Ratio(Cardinality(success), Cardinality(graded))
                  ELSE Ratio(0, 1)]

\* ------------------------------------------------------------ persistence
\* A document: "missing" (no file), "malformed" (text that is not JSON),
\* "other" (JSON whose top level is not an object) or "mapping", with the
\* entries of the object in file order.
NoFile   == [state |-> "missing", entries |-> << >>]
BadFile  == [state |-> "malformed", entries |-> << >>]
ListFile == [state |-> "other", entries |-> << >>]
MapFile(entries) == [state |-> "mapping", entries |-> entries]

\* the data directory before the application ever ran
NoDisk == [white |-> NoFile, black |-> NoFile, cards |-> NoFile]

\* JSON values of the fields of a card entry
JInt(n)   == [t |-> "int", v |-> n]
\* a JSON real number, in hundredths
JFloat(x) == [t |-> "float", v |-> x]
\* a string in ISO_FORMAT that names day d
JDate(d)  == [t |-> "date", v |-> d]
\* a string that is neither a date nor a number
JText     == [t |-> "text", v |-> 0]
JNull     == [t |-> "null", v |-> 0]
\* the key is not in the entry: data.get(key) gives its default
JAbsent   == [t |-> "absent", v |-> 0]

\* persistence.load_json: a missing file is created as "{}"; json.load
\* raises on text that is not JSON
load_json(file) ==
    IF file.state = "missing"
    THEN [file |-> MapFile(<< >>), raised |-> FALSE, value |-> MapFile(<< >>)]
    ELSE [file |-> file, raised |-> file.state = "malformed", value |-> file]

\* the entries of a mapping ordered by key (sort_keys = True)
SortKeys(d) ==
    [i \in DOMAIN d |->
        Lookup(d, CHOOSE k \in Keys(d) :
                      Cardinality({j \in Keys(d) : j < k}) = i - 1)]

\* persistence.save_json: the file is written anew, keys sorted
save_json(entries) == MapFile(SortKeys(entries))

\* the tree as RepertoireManager.save hands it to save_json
TreeEntries(tree) ==
    [i \in DOMAIN tree |->
        [fen |-> tree[i].fen, shape |-> "mapping", moves |-> tree[i].moves]]

\* the comprehension of RepertoireManager.load: entries whose value is a
\* mapping, with the moves whose target is a string (None: another value)
LoadTree(raw) ==
    IF raw.state # "mapping" THEN << >>
    ELSE LET kept == SelectSeq(raw.entries, LAMBDA e : e.shape = "mapping")
         IN  [i \in DOMAIN kept |->
                 [fen   |-> kept[i].fen,
                  moves |-> [m \in {x \in DOMAIN kept[i].moves :
                                       kept[i].moves[x] # None} |->
                                kept[i].moves[m]]]]

\* _format_date / _parse_date: strptime raises ValueError unless the string
\* is a date in ISO_FORMAT
format_date(value) == JDate(value)
ParsesAsDate(j) == j.t = "date"
parse_date(j) == j.v

\* float(x) and int(x) raise on a string that is no number (ValueError) and
\* on null (TypeError)
Unconvertible(j) == j.t \in {"text", "date", "null"}
\* float(data.get("ease", DEFAULT_EASE))
ToFloat(j, default) ==
    IF j.t = "absent" THEN default ELSE IF j.t = "int" THEN 100 * j.v ELSE j.v
\* int(data.get(key, 0)): a real number is truncated
ToInt(j, default) ==
    IF j.t = "absent" THEN default ELSE IF j.t = "float" THEN j.v \div 100 ELSE j.v

\* mutant: a grade is written only when it is truthy
to_dictGradeFalsy(card) ==
    [fen |-> card.fen, shape |-> "mapping",
     ease |-> JFloat(card.ease),
     interval |-> JInt(card.interval),
     repetitions |-> JInt(card.repetitions),
     due |-> format_date(card.due),
     last_grade |-> IF card.last_grade = None \/ card.last_grade = 0
                    THEN JNull ELSE JInt(card.last_grade),
     last_reviewed |-> IF card.last_reviewed = None THEN JNull
                       ELSE format_date(card.last_reviewed)]

\* Card.to_dict, with the key the entry is stored under
to_dict(card) ==
    [fen |-> card.fen, shape |-> "mapping",
     ease |-> JFloat(card.ease),
     interval |-> JInt(card.interval),
     repetitions |-> JInt(card.repetitions),
     due |-> format_date(card.due),
     last_grade |-> IF card.last_grade = None THEN JNull ELSE JInt(card.last_grade),
     last_reviewed |-> IF card.last_reviewed = None THEN JNull
                       ELSE format_date(card.last_reviewed)]

\* Card.from_dict raises when ease, interval or repetitions does not convert
from_dictRaises(data) ==
    Unconvertible(data.ease) \/ Unconvertible(data.interval)
        \/ Unconvertible(data.repetitions)

\* Card.from_dict(fen, data), when it does not raise
from_dict(data, today) ==
    [fen |-> data.fen,
     ease |-> ToFloat(data.ease, DEFAULT_EASE),
     interval |-> ToInt(data.interval, 0),
     repetitions |-> ToInt(data.repetitions, 0),
     due |-> IF ParsesAsDate(data.due) THEN parse_date(data.due) ELSE today,
     last_grade |-> IF data.last_grade.t = "int" THEN data.last_grade.v ELSE None,
     last_reviewed |-> IF ParsesAsDate(data.last_reviewed)
                       THEN parse_date(data.last_reviewed) ELSE None]

\* the loop of SRSManager.load over the entries of the document
LoadEntries(entries, today) ==
    LET kept == SelectSeq(entries, LAMBDA e : e.shape = "mapping")
    IN  [raised |-> \E i \in DOMAIN kept : from_dictRaises(kept[i]),
         cards  |-> [i \in DOMAIN kept |-> from_dict(kept[i], today)]]

\* ------------------------------------------------------------------ calls
Call(op) ==
    [op |-> op, fen |-> None, grade |-> None, today |-> None, side |-> NoText,
     text |-> NoText, games |-> << >>, count |-> None, res |-> << >>,
     stats |-> NoStats, raised |-> FALSE, success |-> FALSE, expected |-> EmptyMap,
     provided |-> NoText, next_fen |-> None]

\* the window before main() has built it: MainWindow holds a
\* RepertoireManager of its own, whose trees start empty
NoWindow ==
    [state |-> "off", white_tree |-> << >>, black_tree |-> << >>,
     current_card |-> << >>, training_side |-> "white"]

\* no caller is inside an operation
NoThreads == << >>

\* neither the window nor step-by-step callers take part
Idle == gui = NoWindow /\ threads = NoThreads

Init ==
    /\ white_tree = << >>
    /\ black_tree = << >>
    /\ cards = << >>
    /\ now = 0
    /\ nsched = 0
    /\ last = Call("init")
    /\ Idle
    /\ hist = << >>
    /\ disk = NoDisk

\* the clock: a new day begins
Tick ==
    /\ now < MaxDay
    /\ now' = now + 1
    /\ last' = Call("tick")
    /\ UNCHANGED <<white_tree, black_tree, cards, nsched, hist, disk, gui, threads>>

\* RepertoireManager.add_line(board at fen, moves, side)
AddLine(fen, moves, side) ==
    LET r == WalkLine(TreeOf(side, white_tree, black_tree), fen, moves)
    IN  /\ white_tree' = IF side = "white" THEN r.tree ELSE white_tree
        /\ black_tree' = IF side = "white" THEN black_tree ELSE r.tree
        /\ last' = [Call("add_line") EXCEPT !.fen = fen, !.side = side,
                                            !.games = <<moves>>,
                                            !.raised = r.raised]
        /\ UNCHANGED <<cards, now, nsched, hist, disk, gui, threads>>

\* RepertoireManager.import_pgn_white / import_pgn_black(source): the games
\* of the file are read and added one after another; nothing in the loop
\* catches an exception, and the count is returned only when the loop ends
ImportPgn(games, side) ==
    \E r \in ImportGames(TreeOf(side, white_tree, black_tree), games, 0) :
        /\ white_tree' = IF side = "white" THEN r.tree ELSE white_tree
        /\ black_tree' = IF side = "white" THEN black_tree ELSE r.tree
        /\ last' = [Call("import_pgn") EXCEPT !.side = side, !.games = games,
                                              !.count = r.count,
                                              !.raised = r.raised]
        /\ UNCHANGED <<cards, now, nsched, hist, disk, gui, threads>>

\* SRSManager.get(fen)
Get(fen) ==
    /\ cards' = GetCards(cards, fen, now)
    /\ last' = [Call("get") EXCEPT !.fen = fen, !.res = <<Lookup(cards', fen)>>]
    /\ UNCHANGED <<white_tree, black_tree, now, nsched, hist, disk, gui, threads>>

\* The three grading calls below leave nsched and hist to the specification
\* that uses them.
\* the effect of SRSManager.schedule(fen, grade, today) on the card map and
\* its result; today = None stands for the omitted argument (date.today())
ScheduleCall(op, fen, grade, today) ==
    LET day == IF today = None THEN now ELSE today
        cs  == GetCards(cards, fen, now)
    IN  \E c \in ScheduleResults(Lookup(cs, fen), grade, day) :
            /\ cards' = StoreCard(cs, c)
            /\ last' = [Call(op) EXCEPT !.fen = fen, !.grade = grade,
                                        !.today = day, !.res = <<c>>]

\* SRSManager.schedule(fen, grade, today)
Schedule(fen, grade, today) ==
    /\ ScheduleCall("schedule", fen, grade, today)
    /\ UNCHANGED <<white_tree, black_tree, now, disk, gui, threads>>

\* Trainer.record_manual_grade(fen, grade)
RecordManualGrade(fen, grade) ==
    /\ ScheduleCall("record_manual_grade", fen, grade, None)
    /\ UNCHANGED <<white_tree, black_tree, now, disk, gui, threads>>

\* Trainer.grade_answer(fen, move_text, side, success_grade, failure_grade)
GradeAnswer(fen, move_text, side, success_grade, failure_grade) ==
    LET available  == available_moves(white_tree, black_tree, fen, side)
        normalized == normalize_move(fen, move_text)
        cs         == GetCards(cards, fen, now)
    IN  /\ IF DOMAIN available = {}
           THEN /\ cards' = cards
                /\ last' = [Call("grade_answer") EXCEPT !.fen = fen, !.side = side,
                                                        !.text = move_text]
           ELSE IF normalized # NoText /\ normalized \in DOMAIN available
           THEN \E c \in ScheduleResults(Lookup(cs, fen), success_grade, now) :
                    /\ cards' = StoreCard(cs, c)
                    /\ last' = [Call("grade_answer") EXCEPT
                                   !.fen = fen, !.side = side,
                                   !.text = move_text,
                                   !.grade = success_grade, !.today = now,
                                   !.res = <<c>>, !.success = TRUE,
                                   !.expected = available,
                                   !.provided = normalized,
                                   !.next_fen = available[normalized]]
           ELSE \E c \in ScheduleResults(Lookup(cs, fen), failure_grade, now) :
                    /\ cards' = StoreCard(cs, c)
                    /\ last' = [Call("grade_answer") EXCEPT
                                   !.fen = fen, !.side = side,
                                   !.text = move_text,
                                   !.grade = failure_grade, !.today = now,
                                   !.res = <<c>>, !.expected = available,
                                   !.provided = normalized]
        /\ UNCHANGED <<white_tree, black_tree, now, disk, gui, threads>>

\* SRSManager.remove_cards(fens_to_keep)
RemoveCards(keep) ==
    /\ cards' = RemoveFrom(cards, keep)
    /\ last' = Call("remove_cards")
    /\ UNCHANGED <<white_tree, black_tree, now, nsched, hist, disk, gui, threads>>

\* SRSManager.due_cards(today)
DueCards(today) ==
    /\ last' = [Call("due_cards") EXCEPT !.today = today,
                                         !.res = due_cards(cards, today)]
    /\ UNCHANGED <<white_tree, black_tree, cards, now, nsched, hist, disk, gui, threads>>

\* Trainer.sync_with_repertoire()
Sync ==
    /\ cards' = SyncCards(cards, white_tree, black_tree, now)
    /\ last' = Call("sync")
    /\ UNCHANGED <<white_tree, black_tree, now, nsched, hist, disk, gui, threads>>

\* Trainer.next_card(side, today)
NextCard(side, today) ==
    /\ last' = [Call("next_card") EXCEPT
                    !.side = side, !.today = today,
                    !.res = next_card(cards, white_tree, black_tree, side, today)]
    /\ UNCHANGED <<white_tree, black_tree, cards, now, nsched, hist, disk, gui, threads>>

\* Trainer.available_moves(fen, side)
AvailableMoves(fen, side) ==
    /\ last' = [Call("available_moves") EXCEPT
                    !.fen = fen, !.side = side,
                    !.expected = available_moves(white_tree, black_tree, fen, side)]
    /\ UNCHANGED <<white_tree, black_tree, cards, now, nsched, hist, disk, gui, threads>>

\* RepertoireManager.load(): both documents are read before a tree is set
RepertoireLoad ==
    LET w == load_json(disk.white)
        b == load_json(disk.black)
    IN  /\ IF w.raised
           THEN UNCHANGED <<white_tree, black_tree, disk, gui, threads>>
           ELSE IF b.raised
           THEN /\ disk' = [disk EXCEPT !.white = w.file]
                /\ UNCHANGED <<white_tree, black_tree>>
           ELSE /\ disk' = [disk EXCEPT !.white = w.file, !.black = b.file]
                /\ white_tree' = LoadTree(w.value)
                /\ black_tree' = LoadTree(b.value)
        /\ last' = [Call("load") EXCEPT !.raised = w.raised \/ b.raised]
        /\ UNCHANGED <<cards, now, nsched, hist, gui, threads>>

\* RepertoireManager.save()
RepertoireSave ==
    /\ disk' = [disk EXCEPT !.white = save_json(TreeEntries(white_tree)),
                            !.black = save_json(TreeEntries(black_tree))]
    /\ last' = Call("save")
    /\ UNCHANGED <<white_tree, black_tree, cards, now, nsched, hist, gui, threads>>

\* SRSManager.load(): the card map is set when the whole loop has run
SrsLoad ==
    LET raw    == load_json(disk.cards)
        loaded == LoadEntries(raw.value.entries, now)
        raised == raw.raised \/ loaded.raised
    IN  /\ disk' = [disk EXCEPT !.cards = raw.file]
        /\ cards' = IF raised THEN cards
                    ELSE IF raw.value.state # "mapping" THEN << >>
                    ELSE loaded.cards
        /\ last' = [Call("srs_load") EXCEPT !.raised = raised]
        /\ UNCHANGED <<white_tree, black_tree, now, nsched, hist, gui, threads>>

\* SRSManager.save()
SrsSave ==
    /\ disk' = [disk EXCEPT
                    !.cards = save_json([i \in DOMAIN cards |-> to_dict(cards[i])])]
    /\ last' = Call("srs_save")
    /\ UNCHANGED <<white_tree, black_tree, cards, now, nsched, hist, gui, threads>>

\* SRSManager.statistics(today, horizon_days)
Statistics(today, horizon_days) ==
    /\ last' = [Call("statistics") EXCEPT
                    !.today = today,
                    !.stats = statistics(cards, today, horizon_days)]
    /\ UNCHANGED <<white_tree, black_tree, cards, now, nsched, hist, disk, gui, threads>>

\* --------------------------------------------------- system specification
\* lines imported from the starting position; a line whose second move is
\* illegal where it is played stops the import there
Lines == {<<m>> : m \in MoveObjs} \cup {<<m1, m2>> : m1, m2 \in MoveObjs}

\* one more grading call is within the explored budget
Counted == nsched < MaxSched /\ nsched' = nsched + 1 /\ UNCHANGED hist

Next ==
    \/ Tick
    \/ \E side \in Sides, moves \in Lines : AddLine(0, moves, side)
    \/ \E fen \in CardFens : Get(fen)
    \/ \E fen \in CardFens, g \in SysGrades : Counted /\ Schedule(fen, g, None)
    \/ \E fen \in CardFens, g \in SysGrades : Counted /\ RecordManualGrade(fen, g)
    \/ \E fen \in CardFens, text \in Texts, side \in Sides :
          Counted /\ GradeAnswer(fen, text, side, 5, 1)
    \/ \E keep \in SUBSET CardFens : RemoveCards(keep)
    \/ \E d \in Days : DueCards(d)
    \/ Sync
    \/ \E side \in Sides, d \in Days : NextCard(side, d)

Spec == Init /\ [][Next]_vars

\* ----------------------------------------------- single-card specification
\* One position, followed through long sequences of reviews: every grade, on
\* any day, with the card dropped and created again in between.
TheFen == 0

\* a success is explored while the streak and the ease stay within the bounds
Within(grade) ==
    IF grade < 3 \/ TheFen \notin Keys(cards) THEN TRUE
    ELSE /\ Lookup(cards, TheFen).repetitions < MaxReps
         /\ NewEase(Lookup(cards, TheFen).ease, grade) <= MaxEase

NextOne ==
    \/ Tick
    \/ AddLine(TheFen, <<"a">>, "white")
    \/ Get(TheFen)
    \/ \E g \in Grades, d \in Days :
          Within(g) /\ Schedule(TheFen, g, d) /\ UNCHANGED <<nsched, hist>>
    \/ \E keep \in SUBSET {TheFen} : RemoveCards(keep)
    \/ Sync

SpecOne == Init /\ [][NextOne]_vars

\* ------------------------------------------------- schedule as a function
\* schedule applied to one card: to a fresh card through sequences of calls,
\* and to a card in an arbitrary prior state.
PriorEases  == {MIN_EASE, 134, DEFAULT_EASE, 298}
PriorGrades == {None, 2, 5}

PriorCards ==
    {NewCard(TheFen, d) : d \in Days} \cup
    {[fen |-> TheFen, ease |-> e, interval |-> i, repetitions |-> r, due |-> 0,
      last_grade |-> g, last_reviewed |-> lr] :
        e \in PriorEases, i \in 0..MaxInterval, r \in 0..MaxReps,
        g \in PriorGrades, lr \in {None, 0}}

IsFresh(card) == card = NewCard(card.fen, card.due)

InitSchedule ==
    /\ white_tree = << >>
    /\ black_tree = << >>
    /\ \E c \in PriorCards :
          /\ cards = <<c>>
          /\ hist = <<[grade |-> None, today |-> None, card |-> c]>>
    /\ now = 0
    /\ nsched = 0
    /\ last = Call("init")
    /\ Idle
    /\ disk = NoDisk

\* the card is reviewed on its due date and the call is recorded
Review(grade) ==
    /\ Len(hist) <= (IF IsFresh(hist[1].card) THEN MaxCalls ELSE MaxPrior)
    /\ Schedule(TheFen, grade, cards[1].due)
    /\ hist' = Append(hist, [grade |-> grade, today |-> cards[1].due,
                             card |-> Lookup(cards', TheFen)])
    /\ UNCHANGED nsched

NextSchedule == \E g \in Grades : Review(g)

SpecSchedule == InitSchedule /\ [][NextSchedule]_vars

\* ------------------------------------------------ training specification
\* Answers are graded one after another while lines are imported and days
\* pass: a position is answered before and after it has moves, and again
\* once its card has been reviewed.
NextTrain ==
    \/ Tick
    \/ \E side \in Sides, moves \in Lines : AddLine(0, moves, side)
    \/ \E fen \in CardFens, text \in Texts, side \in Sides :
          /\ nsched < MaxAnswers
          /\ nsched' = nsched + 1
          /\ GradeAnswer(fen, text, side, 5, 1)
          /\ UNCHANGED hist

SpecTrain == Init /\ [][NextTrain]_vars

\* -------------------------------------------------- import specification
\* PGN files of up to MaxGames games and single lines are imported into
\* either tree, one import after another.
Batches == UNION {[1..n -> PgnGames] : n \in 0..MaxGames}

NextImport ==
    \/ \E side \in Sides, games \in Batches : ImportPgn(games, side)
    \/ \E side \in Sides, moves \in Lines : AddLine(0, moves, side)

SpecImport == Init /\ [][NextImport]_vars

\* --------------------------------------------------- frame specifications
\* Every operation of the repertoire, the scheduler and the coordinator on
\* one day.  The white tree starts empty or as loaded from a document that
\* records another target for Na3 than the rules provider gives, so that an
\* import overwrites an entry.
InitFrame ==
    /\ white_tree \in {<< >>, <<[fen |-> 0, moves |-> Put(EmptyMap, "Na3", 2)]>>}
    /\ black_tree = << >>
    /\ cards = << >>
    /\ now = 0
    /\ nsched = 0
    /\ last = Call("init")
    /\ Idle
    /\ hist = << >>
    /\ disk = NoDisk

\* the operations as the application calls them: remove_cards is called by
\* sync_with_repertoire alone
NextUse ==
    \/ \E side \in Sides, moves \in Lines : AddLine(0, moves, side)
    \/ \E side \in Sides, game \in PgnGames : ImportPgn(<<game>>, side)
    \/ \E fen \in CardFens : Get(fen)
    \/ \E fen \in CardFens, g \in SysGrades : Counted /\ Schedule(fen, g, None)
    \/ \E fen \in CardFens, g \in SysGrades : Counted /\ RecordManualGrade(fen, g)
    \/ \E fen \in CardFens, text \in Texts, side \in Sides :
          Counted /\ GradeAnswer(fen, text, side, 5, 1)
    \/ DueCards(now)
    \/ Sync
    \/ \E side \in Sides : NextCard(side, now)
    \/ \E fen \in CardFens, side \in Sides : AvailableMoves(fen, side)

SpecUse == InitFrame /\ [][NextUse]_vars

\* the same with remove_cards called on its own
NextFrame ==
    \/ NextUse
    \/ \E keep \in SUBSET CardFens : RemoveCards(keep)

SpecFrame == InitFrame /\ [][NextFrame]_vars

\* ---------------------------------------------------- load specification
\* The application starts on a data directory left by an earlier run, by
\* another program or by hand, and loads its stores.
\* values found for the fields of a card entry
EaseValues         == {JAbsent, JFloat(DEFAULT_EASE), JInt(2), JText}
IntervalValues     == {JAbsent, JInt(3), JFloat(370), JNull}
RepetitionsValues  == {JInt(2), JText}
DueValues          == {JAbsent, JDate(MaxDay), JText}
LastGradeValues    == {JNull, JInt(0), JFloat(400), JText}
LastReviewedValues == {JNull, JDate(0), JText}

\* an entry whose value is not a mapping
NotAnEntry(fen) ==
    [fen |-> fen, shape |-> "other", ease |-> JAbsent, interval |-> JAbsent,
     repetitions |-> JAbsent, due |-> JAbsent, last_grade |-> JAbsent,
     last_reviewed |-> JAbsent]

CardEntries(fen) ==
    {NotAnEntry(fen)} \cup
    {[fen |-> fen, shape |-> "mapping", ease |-> e, interval |-> i,
      repetitions |-> r, due |-> d, last_grade |-> g, last_reviewed |-> lr] :
        e \in EaseValues, i \in IntervalValues, r \in RepetitionsValues,
        d \in DueValues, g \in LastGradeValues, lr \in LastReviewedValues}

\* an entry as save writes it
SoundEntry == to_dict(NewCard(1, 0))

CardFiles ==
    {NoFile, BadFile, ListFile} \cup
    UNION {{MapFile(<<e>>), MapFile(<<e, SoundEntry>>), MapFile(<<SoundEntry, e>>)} :
              e \in CardEntries(0)}

TreeFiles ==
    {NoFile, BadFile, ListFile, MapFile(<< >>),
     MapFile(<<[fen |-> 1, shape |-> "mapping", moves |-> Put(EmptyMap, "Nc3", 2)],
               [fen |-> 0, shape |-> "mapping",
                moves |-> Put(Put(EmptyMap, "Na3", 1), "Nc3", None)],
               [fen |-> 2, shape |-> "other", moves |-> EmptyMap]>>)}

InitLoad ==
    /\ white_tree = << >>
    /\ black_tree = << >>
    /\ cards = << >>
    /\ now \in Days
    /\ nsched = 0
    /\ last = Call("init")
    /\ Idle
    /\ hist = << >>
    /\ \/ \E c \in CardFiles : disk = [white |-> NoFile, black |-> NoFile, cards |-> c]
       \/ \E w, b \in TreeFiles : disk = [white |-> w, black |-> b, cards |-> NoFile]

NextLoad ==
    \/ RepertoireLoad
    \/ SrsLoad

SpecLoad == InitLoad /\ [][NextLoad]_vars

\* ---------------------------------------------- round-trip specification
\* On some day, on a fresh data directory, the state is built with add_line,
\* sync and schedule while the stores are saved and loaded, in any order.
InitRoundTrip ==
    /\ white_tree = << >>
    /\ black_tree = << >>
    /\ cards = << >>
    /\ now \in Days
    /\ nsched = 0
    /\ last = Call("init")
    /\ Idle
    /\ hist = << >>
    /\ disk = NoDisk

NextRoundTrip ==
    \/ \E moves \in {<<"a">>, <<"a", "c">>} : AddLine(0, moves, "white")
    \/ AddLine(1, <<"c">>, "white")
    \/ AddLine(0, <<"c">>, "black")
    \/ Sync
    \/ \E fen \in CardFens, g \in {0, 5} : Counted /\ Schedule(fen, g, None)
    \/ RepertoireSave
    \/ RepertoireLoad
    \/ SrsSave
    \/ SrsLoad

SpecRoundTrip == InitRoundTrip /\ [][NextRoundTrip]_vars

\* ----------------------------------------------- statistics specification
\* statistics as a function of the card map: up to MaxCards cards, each due
\* before, on or after the days asked about, never graded or graded last
\* with 0, a failure or a success.
StatGrades == {None, 0, 2, 3, 5}

StatCards(fen) ==
    {[NewCard(fen, d) EXCEPT !.last_grade = g,
                             !.last_reviewed = IF g = None THEN None ELSE 0,
                             !.ease = IF g = 5 THEN DEFAULT_EASE + 10 ELSE DEFAULT_EASE] :
        d \in 0..(MaxDay + 1), g \in StatGrades}

StatMaps ==
    UNION {{cs \in [1..n -> UNION {StatCards(f) : f \in 0..(n - 1)}] :
               \A i \in 1..n : cs[i].fen = i - 1} : n \in 0..MaxCards}

InitStats ==
    /\ white_tree = << >>
    /\ black_tree = << >>
    /\ cards \in StatMaps
    /\ now = 0
    /\ nsched = 0
    /\ last = Call("init")
    /\ Idle
    /\ hist = << >>
    /\ disk = NoDisk

NextStats == \E today \in Days, horizon_days \in 0..MaxHorizon :
                 Statistics(today, horizon_days)

SpecStats == InitStats /\ [][NextStats]_vars

\* --------------------------------------------------------- application
\* The process: main() loads both stores, builds the Trainer on the
\* RepertoireManager it loaded and syncs; MainWindow.__init__ then builds a
\* second RepertoireManager on the same two paths, never loaded, and ends
\* with refresh_state().

\* MainWindow.load_next_card: Trainer.next_card(side, today) is called with
\* no argument, so the call raises TypeError before current_card is set
load_next_card(window) == [window |-> window, raised |-> TRUE]

\* MainWindow.refresh_state on app = [white_tree, black_tree (the trainer's
\* RepertoireManager), cards, disk, window, today]: sync, save of the
\* window's own trees, save of the cards, statistics, load_next_card
refresh_state(app) ==
    LET synced == SyncCards(app.cards, app.white_tree, app.black_tree, app.today)
        shown  == load_next_card(app.window)
    IN  [white_tree |-> app.white_tree, black_tree |-> app.black_tree,
         cards  |-> synced,
         disk   |-> [white |-> save_json(TreeEntries(app.window.white_tree)),
                     black |-> save_json(TreeEntries(app.window.black_tree)),
                     cards |-> save_json([i \in DOMAIN synced |-> to_dict(synced[i])])],
         window |-> shown.window, today |-> app.today, raised |-> shown.raised]

\* main(): one launch of the process on the data directory. Whatever the
\* exception, it leaves main and the process ends before window.show().
Main ==
    LET w      == load_json(disk.white)
        b      == load_json(disk.black)
        raw    == load_json(disk.cards)
        loaded == LoadEntries(raw.value.entries, now)
        built  == [NoWindow EXCEPT !.state = "built"]
        app    == refresh_state(
                      [white_tree |-> LoadTree(w.value),
                       black_tree |-> LoadTree(b.value),
                       cards  |-> SyncCards(IF raw.value.state # "mapping" THEN << >>
                                            ELSE loaded.cards,
                                            LoadTree(w.value), LoadTree(b.value), now),
                       disk   |-> [white |-> w.file, black |-> b.file,
                                   cards |-> raw.file],
                       window |-> built, today |-> now, raised |-> FALSE])
    IN  /\ IF w.raised
           THEN /\ white_tree' = << >> /\ black_tree' = << >> /\ cards' = << >>
                /\ UNCHANGED disk
                /\ gui' = [NoWindow EXCEPT !.state = "ended"]
           ELSE IF b.raised
           THEN /\ white_tree' = << >> /\ black_tree' = << >> /\ cards' = << >>
                /\ disk' = [disk EXCEPT !.white = w.file]
                /\ gui' = [NoWindow EXCEPT !.state = "ended"]
           ELSE IF raw.raised \/ loaded.raised
           THEN /\ white_tree' = LoadTree(w.value)
                /\ black_tree' = LoadTree(b.value)
                /\ cards' = << >>
                /\ disk' = [white |-> w.file, black |-> b.file, cards |-> raw.file]
                /\ gui' = [NoWindow EXCEPT !.state = "ended"]
           ELSE /\ white_tree' = app.white_tree
                /\ black_tree' = app.black_tree
                /\ cards' = app.cards
                /\ disk' = app.disk
                /\ gui' = [app.window EXCEPT
                               !.state = IF app.raised THEN "ended" ELSE "shown"]
        /\ last' = [Call("main") EXCEPT
                       !.raised = w.raised \/ b.raised \/ raw.raised
                                      \/ loaded.raised \/ app.raised]
        /\ UNCHANGED <<now, nsched, hist, threads>>

\* The user asks for "Import PGN" with a file of these games for a side.
\* MainWindow.import_pgn runs when a window is shown: the games go into the
\* window's own RepertoireManager, which is saved; an exception of the import
\* is reported and ends the handler, otherwise refresh_state follows. With
\* no window there is nothing to take the request.
WindowImportPgn(games, side) ==
    /\ IF gui.state = "shown"
       THEN \E r \in ImportGames(TreeOf(side, gui.white_tree, gui.black_tree),
                                 games, 0) :
               LET window == [gui EXCEPT
                                 !.white_tree = IF side = "white" THEN r.tree ELSE @,
                                 !.black_tree = IF side = "white" THEN @ ELSE r.tree]
                   saved  == [disk EXCEPT
                                 !.white = save_json(TreeEntries(window.white_tree)),
                                 !.black = save_json(TreeEntries(window.black_tree))]
                   app    == refresh_state(
                                 [white_tree |-> white_tree, black_tree |-> black_tree,
                                  cards |-> cards, disk |-> saved, window |-> window,
                                  today |-> now, raised |-> FALSE])
               IN  IF r.raised
                   THEN /\ gui' = window
                        /\ UNCHANGED <<cards, disk>>
                   ELSE /\ gui' = [app.window EXCEPT
                                      !.state = IF app.raised THEN "ended" ELSE "shown"]
                        /\ cards' = app.cards
                        /\ disk' = app.disk
       ELSE UNCHANGED <<cards, disk, gui>>
    /\ last' = [Call("window_import_pgn") EXCEPT !.side = side, !.games = games]
    /\ UNCHANGED <<white_tree, black_tree, now, nsched, hist, threads>>

\* documents an earlier run or an editor can have left in the data directory
AppTreeFiles ==
    {NoFile, BadFile, MapFile(<< >>),
     save_json(TreeEntries(WalkLine(<< >>, 0, <<"a">>).tree)),
     save_json(TreeEntries(WalkLine(<< >>, 0, <<"a", "c">>).tree))}

AppCardFiles ==
    {NoFile, BadFile,
     save_json(<<to_dict(NewCard(0, 0))>>),
     save_json(<<to_dict([NewCard(0, 0) EXCEPT !.due = 1, !.interval = 1,
                                               !.repetitions = 1, !.last_grade = 5,
                                               !.last_reviewed = 0])>>)}

InitApp ==
    /\ white_tree = << >>
    /\ black_tree = << >>
    /\ cards = << >>
    /\ now \in Days
    /\ nsched = 0
    /\ last = Call("init")
    /\ Idle
    /\ hist = << >>
    /\ disk \in [white : AppTreeFiles, black : AppTreeFiles, cards : AppCardFiles]

\* games of the files the user imports
AppBatches == {<<<<"a">>>>, <<<<"a", "c">>>>, <<<<"c">>, <<"a">>>>}

NextApp ==
    \/ Main
    \/ \E side \in Sides, games \in AppBatches : WindowImportPgn(games, side)

SpecApp == InitApp /\ [][NextApp]_vars

\* ------------------------------------------------- session specification
\* The coordinator as a caller uses it: lines are added to either tree, the
\* scheduler is synced, the next card is asked for either side and positions
\* are graded by an answer or by hand, over the days.
NextSession ==
    \/ Tick
    \/ \E side \in Sides, moves \in Lines : AddLine(0, moves, side)
    \/ Sync
    \/ \E side \in Sides : NextCard(side, now)
    \/ \E fen \in CardFens, text \in {"Na3", ""}, side \in Sides :
          /\ nsched < MaxAnswers
          /\ nsched' = nsched + 1
          /\ GradeAnswer(fen, text, side, 5, 1)
          /\ UNCHANGED hist
    \/ \E fen \in CardFens :
          /\ nsched < MaxAnswers
          /\ nsched' = nsched + 1
          /\ RecordManualGrade(fen, 5)
          /\ UNCHANGED hist

SpecSession == Init /\ [][NextSession]_vars

\* -------------------------------------------------- review specification
\* Review cycles of one side on one day: the caller asks next_card for its
\* side and today, grades the card it was given by an answer or by hand, and
\* asks again.  Nothing is imported.  The side under review is held where
\* the window holds it, in training_side.

\* repertoires as add_line builds them from the starting position
ReviewTrees == {WalkLine(<< >>, 0, line).tree : line \in {<<"a">>, <<"c">>, <<"a", "c">>}}

\* a card by today: created on some day and never graded, or graded once on
\* the day it was created
ReviewCards(fen, today) ==
    {NewCard(fen, d) : d \in 0..today} \cup
    {Scheduled(NewCard(fen, d), g, d, 1) : d \in 0..today, g \in SysGrades}

InitReview ==
    /\ white_tree \in ReviewTrees
    /\ black_tree \in ReviewTrees \cup {<< >>}
    /\ now \in Days
    /\ LET synced == SyncCards(<< >>, white_tree, black_tree, now)
       IN  cards \in {cs \in [DOMAIN synced ->
                                 UNION {ReviewCards(f, now) : f \in Keys(synced)}] :
                         \A i \in DOMAIN synced : cs[i].fen = synced[i].fen}
    /\ nsched = 0
    /\ last = Call("init")
    /\ hist = << >>
    /\ disk = NoDisk
    /\ \E side \in Sides : gui = [NoWindow EXCEPT !.training_side = side]
    /\ threads = NoThreads

\* the grades an answer is given on success and on failure
AnswerGrades == {<<5, 1>>, <<3, 0>>, <<4, 2>>}

ReviewNext == NextCard(gui.training_side, now)

ReviewGrade ==
    /\ last.op = "next_card"
    /\ last.res # << >>
    /\ nsched < MaxAnswers
    /\ nsched' = nsched + 1
    /\ \/ \E g \in Grades : RecordManualGrade(last.res[1].fen, g)
       \/ \E text \in {"Na3", "Nc3", ""}, sf \in AnswerGrades :
             GradeAnswer(last.res[1].fen, text, gui.training_side, sf[1], sf[2])
    /\ UNCHANGED hist

NextReview ==
    \/ ReviewNext
    \/ ReviewGrade

\* the caller goes on: a cycle that can be taken is taken
SpecReview == InitReview /\ [][NextReview]_vars /\ WF_vars(NextReview)

\* ------------------------------------------------- callers specification
\* Several callers use one Trainer.  A caller is inside at most one of
\* sync_with_repertoire, schedule and add_line, which it runs a step at a
\* time: a step is one statement of the coordinator or one call on a store.
\* With the writer lock a caller enters an operation only when no caller is
\* inside one; without it the steps of the callers interleave freely.
Callers == {1, 2}

\* a caller outside every operation.  held tells where the Card object that
\* schedule got is: "dict" when it is the object the card map holds under
\* fen, "own" when the map has dropped or replaced it and the caller holds
\* the only reference; card is its value then.
IdleFrame ==
    [pc |-> "idle", all_fens |-> << >>, i |-> 0, fen |-> None, grade |-> None,
     moves |-> << >>, at |-> None, side |-> NoText, held |-> "none", card |-> << >>]

MayEnter == threads.locking => threads.owner = 0

\* the callers once caller t has moved to frame; the lock is held while the
\* caller is inside an operation
Moved(run, t, frame) ==
    [locking |-> threads.locking,
     owner   |-> IF threads.locking /\ frame.pc # "idle" THEN t ELSE 0,
     run     |-> [run EXCEPT ![t] = frame]]

\* the frames of the callers when caller t takes the objects at fens out of
\* the card map: another caller that got one of them keeps the object
Detached(t, fens) ==
    [u \in Callers |->
        IF u # t /\ threads.run[u].held = "dict" /\ threads.run[u].fen \in fens
        THEN [threads.run[u] EXCEPT !.held = "own",
                                    !.card = <<Lookup(cards, threads.run[u].fen)>>]
        ELSE threads.run[u]]

\* mutant: the keys of the black tree are left out
AllFensWhiteOnly(white_fens, black_fens) == white_fens

\* all_fens = white_fens + black_fens
AllFens(white_fens, black_fens) == white_fens \o black_fens

\* sync_with_repertoire: white_fens = list(self.repertoire.white_tree.keys())
SyncEnter(t) ==
    /\ threads.run[t].pc = "idle"
    /\ MayEnter
    /\ threads' = Moved(threads.run, t,
                        [IdleFrame EXCEPT !.pc = "sync_black",
                                          !.all_fens = KeyList(white_tree)])
    /\ last' = Call("step")
    /\ UNCHANGED <<white_tree, black_tree, cards, now, nsched, hist, disk, gui>>

\* black_fens = list(self.repertoire.black_tree.keys()); all_fens = ...
SyncBlack(t) ==
    /\ threads.run[t].pc = "sync_black"
    /\ threads' = Moved(threads.run, t,
                        [threads.run[t] EXCEPT
                            !.pc = "sync_get", !.i = 1,
                            !.all_fens = AllFens(@, KeyList(black_tree))])
    /\ last' = Call("step")
    /\ UNCHANGED <<white_tree, black_tree, cards, now, nsched, hist, disk, gui>>

\* one turn of the loop: self.srs.get(fen)
SyncGet(t) ==
    /\ threads.run[t].pc = "sync_get"
    /\ threads.run[t].i <= Len(threads.run[t].all_fens)
    /\ cards' = GetCards(cards, threads.run[t].all_fens[threads.run[t].i], now)
    /\ threads' = Moved(threads.run, t, [threads.run[t] EXCEPT !.i = @ + 1])
    /\ last' = Call("step")
    /\ UNCHANGED <<white_tree, black_tree, now, nsched, hist, disk, gui>>

\* self.srs.remove_cards(all_fens), and sync returns; the cards it removed
\* are recorded
SyncRemove(t) ==
    LET frame   == threads.run[t]
        keep    == {frame.all_fens[k] : k \in DOMAIN frame.all_fens}
        removed == SelectSeq(cards, LAMBDA c : c.fen \notin keep)
    IN  /\ frame.pc = "sync_get"
        /\ frame.i > Len(frame.all_fens)
        /\ cards' = RemoveFrom(cards, keep)
        /\ threads' = Moved(Detached(t, Keys(removed)), t, IdleFrame)
        /\ last' = [Call("sync") EXCEPT !.res = removed]
        /\ UNCHANGED <<white_tree, black_tree, now, nsched, hist, disk, gui>>

\* schedule: card = self.get(fen)
ScheduleEnter(t, fen, grade) ==
    /\ threads.run[t].pc = "idle"
    /\ MayEnter
    /\ nsched < MaxAnswers
    /\ nsched' = nsched + 1
    /\ cards' = GetCards(cards, fen, now)
    /\ threads' = Moved(threads.run, t,
                        [IdleFrame EXCEPT !.pc = "schedule_set", !.fen = fen,
                                          !.grade = grade, !.held = "dict"])
    /\ last' = Call("step")
    /\ UNCHANGED <<white_tree, black_tree, now, hist, disk, gui>>

\* the assignments to the Card object, self._cards[fen] = card, and
\* schedule returns
ScheduleSet(t) ==
    LET frame == threads.run[t]
        card  == IF frame.held = "dict" THEN Lookup(cards, frame.fen)
                 ELSE frame.card[1]
    IN  /\ frame.pc = "schedule_set"
        /\ \E c \in ScheduleResults(card, frame.grade, now) :
              /\ cards' = IF frame.fen \in Keys(cards) THEN StoreCard(cards, c)
                          ELSE Append(cards, c)
              /\ last' = [Call("schedule") EXCEPT !.fen = frame.fen,
                                                  !.grade = frame.grade,
                                                  !.today = now, !.res = <<c>>]
        /\ threads' = Moved(IF frame.held = "own" THEN Detached(t, {frame.fen})
                            ELSE threads.run, t, IdleFrame)
        /\ UNCHANGED <<white_tree, black_tree, now, nsched, hist, disk, gui>>

\* one turn of the loop of add_line, for caller t at frame: the ply is
\* written, or board.san raises and leaves the call; add_line returns after
\* the last move
AddLinePly(t, frame) ==
    LET move == Head(frame.moves)
        rest == Tail(frame.moves)
        tree == SetMove(TreeOf(frame.side, white_tree, black_tree), frame.at,
                        San(move), Target(frame.at, move))
        done == [Call("add_line") EXCEPT !.fen = 0, !.side = frame.side,
                                         !.raised = ~IsLegal(frame.at, move)]
    IN  IF ~IsLegal(frame.at, move)
        THEN /\ threads' = Moved(threads.run, t, IdleFrame)
             /\ last' = done
             /\ UNCHANGED <<white_tree, black_tree>>
        ELSE /\ white_tree' = IF frame.side = "white" THEN tree ELSE white_tree
             /\ black_tree' = IF frame.side = "white" THEN black_tree ELSE tree
             /\ threads' = Moved(threads.run, t,
                                 IF rest = << >> THEN IdleFrame
                                 ELSE [frame EXCEPT !.moves = rest,
                                                    !.at = Target(frame.at, move)])
             /\ last' = IF rest = << >> THEN done ELSE Call("step")

\* add_line(board at the starting position, moves, side): the first turn
AddLineEnter(t, moves, side) ==
    /\ threads.run[t].pc = "idle"
    /\ MayEnter
    /\ AddLinePly(t, [IdleFrame EXCEPT !.pc = "add_line", !.moves = moves,
                                       !.at = 0, !.side = side])
    /\ UNCHANGED <<cards, now, nsched, hist, disk, gui>>

\* a later turn
AddLineNext(t) ==
    /\ threads.run[t].pc = "add_line"
    /\ AddLinePly(t, threads.run[t])
    /\ UNCHANGED <<cards, now, nsched, hist, disk, gui>>

\* the callers use the lock or they do not
InitCallers ==
    /\ white_tree = << >>
    /\ black_tree = << >>
    /\ cards = << >>
    /\ now = 0
    /\ nsched = 0
    /\ last = Call("init")
    /\ hist = << >>
    /\ disk = NoDisk
    /\ gui = NoWindow
    /\ \E locking \in BOOLEAN :
          threads = [locking |-> locking, owner |-> 0,
                     run |-> [t \in Callers |-> IdleFrame]]

NextCallers ==
    \E t \in Callers :
        \/ SyncEnter(t)
        \/ SyncBlack(t)
        \/ SyncGet(t)
        \/ SyncRemove(t)
        \/ \E fen \in CardFens, g \in SysGrades : ScheduleEnter(t, fen, g)
        \/ ScheduleSet(t)
        \/ \E moves \in {<<"a">>, <<"a", "c">>, <<"c", "a">>} :
              AddLineEnter(t, moves, "white")
        \/ AddLineEnter(t, <<"a">>, "black")
        \/ AddLineNext(t)

SpecCallers == InitCallers /\ [][NextCallers]_vars

\* ------------------------------------------------------------------ claims
CardAt(fen) == Lookup(cards, fen)

NoDuplicateCards == Cardinality(Keys(cards)) = Len(cards)

\* C1: right after sync_with_repertoire the positions that have a card are
\* exactly the keys of the white tree together with the keys of the black
\* tree, one card each, whatever calls came before.
SyncMatchesRepertoire ==
    last.op = "sync" =>
        /\ Keys(cards) = Keys(white_tree) \cup Keys(black_tree)
        /\ NoDuplicateCards

\* a sync with two different non-empty trees after a grading call whose card
\* is gone or kept
SyncMatchesRepertoireWitness ==
    /\ last.op = "sync"
    /\ Keys(white_tree) = {0, 1}
    /\ Keys(black_tree) = {0}
    /\ nsched > 0
    /\ Len(cards) = 2

\* C2: a schedule call with a grade below 3 leaves repetitions = 0 and
\* interval = 1, whatever the card's repetitions, interval and ease were.
FailureResets ==
    /\ CardAt(TheFen) = hist[Len(hist)].card
    /\ \A i \in 2..Len(hist) :
          hist[i].grade < 3 =>
              hist[i].card.repetitions = 0 /\ hist[i].card.interval = 1

\* a grade 0 on a card with a streak and a long interval
FailureResetsWitness ==
    \E i \in 2..Len(hist) :
        /\ hist[i].grade = 0
        /\ hist[i - 1].card.repetitions >= 2
        /\ hist[i - 1].card.interval >= 6

\* r is x100 / 100 rounded to a nearest integer
IsNearest(r, x100) == 100 * r - x100 \in -50..50

\* the success rule of C3 between the card before (p) and after (c) a call
SuccessRule(p, c) ==
    /\ c.repetitions = p.repetitions + 1
    /\ p.repetitions = 0 => c.interval = 1
    /\ p.repetitions = 1 => c.interval = 6
    /\ p.repetitions >= 2 =>
          \E r \in 0..c.interval :
              /\ IsNearest(r, p.interval * p.ease)
              /\ c.interval = (IF r >= 1 THEN r ELSE 1)

ScenarioStep(i, grade, today) ==
    Len(hist) >= i /\ hist[i].grade = grade /\ hist[i].today = today

ScenarioCard(i, repetitions, interval, due) ==
    /\ hist[i].card.repetitions = repetitions
    /\ hist[i].card.interval = interval
    /\ hist[i].card.due = due

Scenario ==
    LET day0 == hist[1].card.due
        s1   == IsFresh(hist[1].card) /\ ScenarioStep(2, 5, day0)
        s2   == s1 /\ ScenarioStep(3, 5, day0 + 1)
        s3   == s2 /\ ScenarioStep(4, 1, day0 + 7)
    IN  /\ s1 => ScenarioCard(2, 1, 1, day0 + 1)
        /\ s2 => ScenarioCard(3, 2, 6, day0 + 7)
        /\ s3 => ScenarioCard(4, 0, 1, day0 + 8)

\* C3: a schedule call with a grade of 3 or more sets the interval to 1 when
\* repetitions was 0, to 6 when it was 1, and otherwise to
\* max(1, round(old interval * old ease)), and adds one to repetitions; on a
\* fresh card the calls (5, day0), (5, day0+1), (1, day0+7) give
\* (repetitions, interval, due) = (1, 1, day0+1), (2, 6, day0+7), (0, 1, day0+8).
SuccessIntervals ==
    /\ \A i \in 2..Len(hist) :
          hist[i].grade >= 3 => SuccessRule(hist[i - 1].card, hist[i].card)
    /\ Scenario

\* the three calls of the scenario have been made on a fresh card
SuccessIntervalsWitness ==
    /\ IsFresh(hist[1].card)
    /\ ScenarioStep(2, 5, hist[1].card.due)
    /\ ScenarioStep(3, 5, hist[1].card.due + 1)
    /\ ScenarioStep(4, 1, hist[1].card.due + 7)
    /\ ScenarioCard(4, 0, 1, hist[1].card.due + 8)

\* a success on a card with a streak, whose interval grows by the old ease
SuccessGrowthWitness ==
    \E i \in 2..Len(hist) :
        /\ hist[i].grade = 5
        /\ hist[i - 1].card.repetitions >= 2
        /\ hist[i].card.interval > hist[i - 1].card.interval
        /\ hist[i].card.interval >= 15

\* ease + 0.1 - (5 - grade) * 0.08 in hundredths, for the three successes
EaseStep(grade) == IF grade = 5 THEN 10 ELSE IF grade = 4 THEN 2 ELSE -6

\* C4: schedule changes the ease only on success: a grade of 3 or more gives
\* max(1.3, ease + 0.1 - (5 - grade) * 0.08), i.e. +0.10, +0.02, -0.06 floored
\* at 1.3, and a grade below 3 leaves the ease as it was.
EaseOnlyOnSuccess ==
    \A i \in 2..Len(hist) :
        LET p == hist[i - 1].card
            c == hist[i].card
            g == hist[i].grade
        IN  /\ g >= 3 =>
                  /\ c.ease = (IF p.ease + EaseStep(g) >= 130
                                 THEN p.ease + EaseStep(g) ELSE 130)
                  /\ c.ease = (IF p.ease + 10 - (5 - g) * 8 >= 130
                                 THEN p.ease + 10 - (5 - g) * 8 ELSE 130)
            /\ g < 3 => c.ease = p.ease

\* a failure on a card whose ease successes had raised
EaseOnlyOnSuccessWitness ==
    \E i \in 3..Len(hist) :
        /\ hist[i].grade < 3
        /\ hist[i - 1].card.ease > DEFAULT_EASE
        /\ hist[i].card.ease = hist[i - 1].card.ease

\* C5: from fresh cards, through schedule with every grade, get, remove_cards
\* and sync, no card's ease is ever below 1.3.
EaseNeverBelowMin == \A i \in DOMAIN cards : cards[i].ease >= 130

\* a grade 3 on a card whose ease is at the floor
EaseNeverBelowMinWitness ==
    /\ last.op = "schedule"
    /\ last.grade = 3
    /\ TheFen \in Keys(cards)
    /\ CardAt(TheFen).ease = 130
    /\ CardAt(TheFen).repetitions >= 2

\* C6: every card whose last_reviewed is set has due = last_reviewed +
\* interval, and a schedule(position, grade, today) call leaves the card with
\* last_grade = grade, last_reviewed = today and due = today + new interval.
DueIsReviewPlusInterval ==
    /\ \A i \in DOMAIN cards :
          cards[i].last_reviewed # None =>
              cards[i].due = cards[i].last_reviewed + cards[i].interval
    /\ last.op = "schedule" =>
          /\ last.fen \in Keys(cards)
          /\ last.res = <<CardAt(last.fen)>>
          /\ CardAt(last.fen).last_grade = last.grade
          /\ CardAt(last.fen).last_reviewed = last.today
          /\ CardAt(last.fen).due = last.today + CardAt(last.fen).interval

\* a success on a day other than the clock's, after a streak of two
DueIsReviewPlusIntervalWitness ==
    /\ last.op = "schedule"
    /\ last.today # now
    /\ CardAt(last.fen).repetitions = 3
    /\ CardAt(last.fen).interval >= 15

\* C7: a card scheduled at least once has interval >= 1; a card never
\* scheduled has interval 0, repetitions 0 and no last_grade; interval and
\* repetitions are never negative.
IntervalOnceScheduled ==
    \A i \in DOMAIN cards :
        /\ cards[i].interval >= 0
        /\ cards[i].repetitions >= 0
        /\ cards[i].last_reviewed # None => cards[i].interval >= 1
        /\ cards[i].last_reviewed = None =>
              /\ cards[i].interval = 0
              /\ cards[i].repetitions = 0
              /\ cards[i].last_grade = None

\* a card on a streak of three, next to which a fresh card would have
\* interval 0: the scheduled card's interval came from the growth rule
IntervalOnceScheduledWitness ==
    /\ last.op = "schedule"
    /\ CardAt(TheFen).last_reviewed # None
    /\ CardAt(TheFen).repetitions >= 3
    /\ CardAt(TheFen).interval >= 1

AllSuccesses(i) == \A j \in 2..i : hist[j].grade >= 3

\* C8: on a fresh card graded 3, 4 or 5 at every call, repetitions goes up by
\* one at every call and, from the second success on, every new interval is
\* greater than the one before.
StreakGrows ==
    IsFresh(hist[1].card) =>
        \A i \in 2..Len(hist) :
            AllSuccesses(i) =>
                /\ hist[i].card.repetitions = i - 1
                /\ i >= 3 => hist[i].card.interval > hist[i - 1].card.interval

\* four successes in a row on a fresh card, a grade 3 among them
StreakGrowsWitness ==
    /\ IsFresh(hist[1].card)
    /\ Len(hist) >= 5
    /\ AllSuccesses(5)
    /\ \E j \in 2..5 : hist[j].grade = 3
    /\ hist[5].card.interval > hist[4].card.interval

\* (due, ease) of a comes no later than that of b
NotAfter(a, b) == a.due < b.due \/ (a.due = b.due /\ a.ease <= b.ease)

\* C9: due_cards(today) returns exactly the cards with due <= today, each
\* once, in ascending order of (due, ease).
DueCardsExactSorted ==
    last.op = "due_cards" =>
        /\ \A i \in DOMAIN last.res :
              /\ last.res[i].due <= last.today
              /\ \E k \in DOMAIN cards : cards[k] = last.res[i]
        /\ \A k \in DOMAIN cards :
              cards[k].due <= last.today =>
                  Cardinality({i \in DOMAIN last.res :
                                   last.res[i].fen = cards[k].fen}) = 1
        /\ \A i, j \in DOMAIN last.res :
              i < j => NotAfter(last.res[i], last.res[j])

\* two cards due on the same day come back in the order of their ease, which
\* is not the order they are stored in
DueCardsExactSortedWitness ==
    /\ last.op = "due_cards"
    /\ Len(last.res) = 2
    /\ last.res[1].due = last.res[2].due
    /\ last.res[1].ease < last.res[2].ease
    /\ cards = <<last.res[2], last.res[1]>>

\* the cards next_card may return: due and keyed in the side's tree
Eligible(side, today) ==
    {k \in DOMAIN cards :
        cards[k].due <= today /\ cards[k].fen \in Keys(TreeOf(side, white_tree, black_tree))}

NextCardPick ==
    last.op = "next_card" =>
        LET el == Eligible(last.side, last.today)
            dc == due_cards(cards, last.today)
            ix == {i \in DOMAIN dc :
                      dc[i].fen \in Keys(TreeOf(last.side, white_tree, black_tree))}
        IN  /\ (last.res = << >>) <=> (el = {})
            /\ last.res # << >> =>
                  /\ Len(last.res) = 1
                  /\ \E k \in el : cards[k] = last.res[1]
                  /\ \A k \in el : NotAfter(last.res[1], cards[k])
                  /\ \E i \in ix : dc[i] = last.res[1] /\ \A j \in ix : i <= j

NextCardFrame ==
    last'.op = "next_card" => UNCHANGED <<cards, white_tree, black_tree>>

\* C10: next_card(side, today) returns the first card of due_cards(today)
\* whose position is a key of the side's tree, none exactly when no card is
\* both due and keyed in that tree, never a card keyed only in the other
\* tree, and it changes no card and no tree.
NextCardContract == []NextCardPick /\ [][NextCardFrame]_vars

\* the returned card is not the first due card: an earlier one belongs to
\* the other side only
NextCardContractWitness ==
    /\ last.op = "next_card"
    /\ last.res # << >>
    /\ \E k \in DOMAIN cards :
          /\ cards[k].due <= last.today
          /\ cards[k].fen \notin Keys(TreeOf(last.side, white_tree, black_tree))
          /\ ~NotAfter(last.res[1], cards[k])

\* ------------------------------------------------------- answer grading
\* the moves the side's tree records at the position
Recorded(side, fen) ==
    LET tree == IF side = "white" THEN white_tree ELSE black_tree
        hits == {i \in DOMAIN tree : tree[i].fen = fen}
    IN  IF hits = {} THEN EmptyMap ELSE tree[CHOOSE i \in hits : TRUE].moves

\* the legal moves of the position that the text names, in algebraic notation
\* or in coordinate notation (read without regard to letter case), once
\* surrounding blanks are removed
Denoted(fen, text) ==
    {m \in MoveObjs :
        /\ IsLegal(fen, m)
        /\ San(m) = Strip(text) \/ Uci(m) = Lower(Strip(text))}

\* the step schedules the card of fen once at grade, creating it when it has
\* none, and touches no other card
ScheduledOnce(fen, grade) ==
    LET p == IF fen \in Keys(cards) THEN CardAt(fen) ELSE NewCard(fen, now)
        c == Lookup(cards', fen)
    IN  /\ Keys(cards') = Keys(cards) \cup {fen}
        /\ Cardinality(Keys(cards')) = Len(cards')
        /\ \A f \in Keys(cards) \ {fen} : Lookup(cards', f) = Lookup(cards, f)
        /\ c \in ScheduleResults(p, grade, now)
        /\ c.last_grade = grade
        /\ c.last_reviewed = now
        /\ c.repetitions = (IF grade < 3 THEN 0 ELSE p.repetitions + 1)
        /\ last'.res = <<c>>

NoMovesStep ==
    (last'.op = "grade_answer" /\ DOMAIN Recorded(last'.side, last'.fen) = {}) =>
        /\ ~last'.success
        /\ DOMAIN last'.expected = {}
        /\ last'.provided = NoText
        /\ last'.next_fen = None
        /\ cards' = cards

\* C11: grade_answer on a position for which the side's tree records no move
\* returns success = false, no expected move, no provided move and no next
\* position, and leaves the scheduler as it was: no card is created and no
\* field of any card changes.
NoMovesLeavesScheduler == [][NoMovesStep]_vars

\* the position has moves for the other side only, it has no card, and the
\* card of another position was reviewed before and is as it was
NoMovesLeavesSchedulerWitness ==
    /\ last.op = "grade_answer"
    /\ DOMAIN Recorded(last.side, last.fen) = {}
    /\ DOMAIN Recorded(IF last.side = "white" THEN "black" ELSE "white", last.fen) # {}
    /\ last.fen \notin Keys(cards)
    /\ \E k \in DOMAIN cards : cards[k].last_reviewed # None
    /\ ~last.success
    /\ nsched = 2

SuccessStep ==
    (/\ last'.op = "grade_answer"
     /\ DOMAIN Recorded(last'.side, last'.fen) # {}
     /\ \E m \in Denoted(last'.fen, last'.text) :
           San(m) \in DOMAIN Recorded(last'.side, last'.fen)) =>
        /\ last'.success
        /\ \E m \in Denoted(last'.fen, last'.text) :
              /\ last'.provided = San(m)
              /\ last'.next_fen = Recorded(last'.side, last'.fen)[San(m)]
        /\ last'.expected = Recorded(last'.side, last'.fen)
        /\ last'.grade = 5
        /\ ScheduledOnce(last'.fen, 5)

\* C12: when the side's tree has moves at the position and the text names, in
\* algebraic or in coordinate notation, a legal move whose canonical notation
\* is a key of the expected moves, grade_answer returns success = true with
\* next_fen the tree's target for that move, and the position's card is
\* scheduled exactly once at success_grade (5).
ExpectedMoveSucceeds == [][SuccessStep]_vars

\* an expected move given in coordinate notation, in upper case, on a card
\* that was reviewed before: its streak grows by exactly one
ExpectedMoveSucceedsWitness ==
    /\ last.op = "grade_answer"
    /\ last.text = "B1C3"
    /\ last.success
    /\ last.provided = "Nc3"
    /\ last.next_fen = 2
    /\ CardAt(last.fen).repetitions = 2
    /\ CardAt(last.fen).last_grade = 5

FailureStep ==
    (/\ last'.op = "grade_answer"
     /\ DOMAIN Recorded(last'.side, last'.fen) # {}
     /\ \A m \in Denoted(last'.fen, last'.text) :
           San(m) \notin DOMAIN Recorded(last'.side, last'.fen)) =>
        /\ ~last'.raised
        /\ ~last'.success
        /\ last'.expected = Recorded(last'.side, last'.fen)
        /\ IF Denoted(last'.fen, last'.text) = {}
           THEN last'.provided = NoText
           ELSE \E m \in Denoted(last'.fen, last'.text) : last'.provided = San(m)
        /\ last'.next_fen = None
        /\ last'.grade = 1
        /\ ScheduledOnce(last'.fen, 1)

\* C13: when the side's tree has moves at the position and the text is empty,
\* unparseable, illegal, or a legal move that is not expected, grade_answer
\* does not raise: it returns success = false with the full mapping stored at
\* the position, the normalized move or none, no next position, and the
\* position's card is scheduled exactly once at failure_grade (1).
OtherAnswerFails == [][FailureStep]_vars

\* a move that exists but is illegal in the position, given in coordinate
\* notation: nothing is provided and the reviewed card starts over
OtherAnswerFailsWitness ==
    /\ last.op = "grade_answer"
    /\ last.text = "b1a3"
    /\ last.fen = 1
    /\ DOMAIN last.expected = {"Nc3"}
    /\ last.provided = NoText
    /\ ~last.success
    /\ CardAt(1).repetitions = 0
    /\ CardAt(1).last_grade = 1
    /\ CardAt(1).ease > DEFAULT_EASE

\* a legal move that is not an expected one is reported back in canonical form
UnexpectedMoveWitness ==
    /\ last.op = "grade_answer"
    /\ ~last.success
    /\ last.provided = "Nc3"
    /\ DOMAIN last.expected = {"Na3"}

\* ------------------------------------------------------------------ import
\* a tree as a mapping: position -> (move -> position after)
MapOf(tree) == [f \in Keys(tree) |-> Lookup(tree, f).moves]

AddLineAborts ==
    (last'.op = "add_line" /\ last'.raised) =>
        /\ MapOf(white_tree') = MapOf(white_tree)
        /\ MapOf(black_tree') = MapOf(black_tree)

\* C14: add_line is all-or-nothing per line: when the rules provider fails on
\* a move of the line, the tree holds no entry of the line's earlier plies
\* that it did not hold before the call (entries of earlier lines remain).
AddLineAllOrNothing == [][AddLineAborts]_vars

\* the game is sound: every move of its movetext is legal where it is played
Sound(game) == ~WalkLine(<< >>, 0, game).raised

\* the tree after importing the sound games of the file and no other
RECURSIVE SoundOnly(_, _)
SoundOnly(tree, games) ==
    IF games = << >> THEN tree
    ELSE SoundOnly(IF Sound(Head(games)) THEN WalkLine(tree, 0, Head(games)).tree
                   ELSE tree,
                   Tail(games))

ImportStep ==
    last'.op = "import_pgn" =>
        /\ ~last'.raised
        /\ last'.count = Cardinality({i \in DOMAIN last'.games : Sound(last'.games[i])})
        /\ MapOf(TreeOf(last'.side, white_tree', black_tree')) =
              MapOf(SoundOnly(TreeOf(last'.side, white_tree, black_tree), last'.games))

\* C15: in a batch import a failing game (unparseable, or with an illegal
\* move) is skipped and the batch continues: the tree gains the lines of the
\* other games only, and the returned count is the number of games that were
\* imported successfully.
ImportSkipsFailures == [][ImportStep]_vars

\* ------------------------------------------------------------------ frames
\* the (position, move) pairs of a tree
Pairs(tree) ==
    {p \in Fens \X {San(m) : m \in MoveObjs} :
        p[1] \in Keys(tree) /\ p[2] \in DOMAIN Lookup(tree, p[1]).moves}

\* the (position, move, target) entries the walk of a line writes, up to its
\* first illegal move
RECURSIVE Written(_, _)
Written(fen, moves) ==
    IF moves = << >> \/ ~IsLegal(fen, Head(moves)) THEN {}
    ELSE {<<fen, San(Head(moves)), Target(fen, Head(moves))>>}
         \cup Written(Target(fen, Head(moves)), Tail(moves))

\* an import keeps every pair of the tree; a target is replaced only by an
\* entry the call wrote
Kept(tree, tree2, games) ==
    \A p \in Pairs(tree) :
        /\ p \in Pairs(tree2)
        /\ \/ Lookup(tree2, p[1]).moves[p[2]] = Lookup(tree, p[1]).moves[p[2]]
           \/ \E i \in DOMAIN games :
                 <<p[1], p[2], Lookup(tree2, p[1]).moves[p[2]]>> \in Written(0, games[i])

TreeStep ==
    IF last'.op \in {"add_line", "import_pgn"}
    THEN /\ Kept(white_tree, white_tree', last'.games)
         /\ Kept(black_tree, black_tree', last'.games)
         /\ TreeOf(last'.side, black_tree', white_tree') =
               TreeOf(last'.side, black_tree, white_tree)
    ELSE /\ last'.op \in {"sync", "next_card", "available_moves", "grade_answer",
                          "record_manual_grade", "schedule", "remove_cards",
                          "get", "due_cards"}
         /\ white_tree' = white_tree
         /\ black_tree' = black_tree

\* C16: only an import (add_line and its callers) changes a tree, and it only
\* adds or overwrites: sync_with_repertoire, next_card, available_moves,
\* grade_answer, record_manual_grade, schedule and remove_cards leave both
\* trees as they were, and after an import every (position, move) pair that
\* was present is still present, its target replaced only by a write of the
\* same pair in that import.
OnlyImportChangesTrees == [][TreeStep]_vars

\* an import into a tree that held a pair with another target: the pair is
\* there beside the new one, overwritten by the import of its own move
OnlyImportChangesTreesWitness ==
    /\ last.op = "import_pgn"
    /\ last.side = "white"
    /\ last.games = <<<<"a", "c">>>>
    /\ MapOf(white_tree)[0] = Put(Put(EmptyMap, "Na3", 1), "Nc3", 2)
    /\ 1 \in Keys(white_tree)
    /\ white_tree[1].fen = 0
    /\ cards # << >>

\* a pair with the target of the loaded document is kept by the import of
\* another move of its position
StaleTargetKeptWitness ==
    /\ last.op = "add_line"
    /\ 0 \in Keys(white_tree)
    /\ MapOf(white_tree)[0] = Put(Put(EmptyMap, "Na3", 2), "Nc3", 2)

CardStep ==
    /\ \A f \in Keys(cards) :
          IF f \in Keys(cards')
          THEN Lookup(cards', f) # Lookup(cards, f) =>
                  /\ last'.op \in {"schedule", "record_manual_grade", "grade_answer"}
                  /\ last'.fen = f
          ELSE /\ last'.op = "sync"
               /\ f \notin Keys(white_tree) \cup Keys(black_tree)
    /\ last'.op = "sync" =>
          \A f \in Keys(cards) \cap (Keys(white_tree) \cup Keys(black_tree)) :
              f \in Keys(cards') /\ Lookup(cards', f) = Lookup(cards, f)
    /\ (last'.op = "get" /\ last'.fen \in Keys(cards)) =>
          /\ last'.res = <<Lookup(cards, last'.fen)>>
          /\ cards' = cards

\* C17: a card's review state (ease, interval, repetitions, due, last_grade,
\* last_reviewed) is changed only by schedule (directly or through
\* grade_answer and record_manual_grade) on its position, and a card is
\* removed only by a sync that finds its position in neither tree: sync
\* leaves every card whose position is in either tree as it was, and get on
\* a position that has a card returns that card unchanged.
CardsChangeOnlyBySchedule == [][CardStep]_vars

\* a sync that found a reviewed card whose position is in the black tree
\* alone and kept it as it was
CardsChangeOnlyByScheduleWitness ==
    /\ last.op = "sync"
    /\ Keys(cards) = {0}
    /\ CardAt(0).last_grade = 5
    /\ CardAt(0).repetitions = 1
    /\ Keys(black_tree) = {0}
    /\ white_tree = << >>

\* get on a position whose card was reviewed returns the reviewed card
GetReturnsExistingWitness ==
    /\ last.op = "get"
    /\ last.res = <<CardAt(last.fen)>>
    /\ last.res[1].last_grade = 1

\* ------------------------------------------------------------- persistence
LoadStep ==
    /\ last'.op = "load" =>
          /\ ~last'.raised
          /\ disk.white.state # "mapping" => white_tree' = << >>
          /\ disk.black.state # "mapping" => black_tree' = << >>
    /\ (last'.op = "srs_load" /\ disk.cards.state # "mapping") =>
          /\ ~last'.raised
          /\ cards' = << >>

\* C18: loading a repertoire or card-store document never raises for a
\* missing or malformed document: a missing document, one that is not valid
\* JSON and one whose top level is not a mapping each leave the store with
\* the empty tree / the empty card set.
LoadNeverRaises == [][LoadStep]_vars

\* the field has the shape from_dict converts
Convertible(j) == j.t \in {"absent", "int", "float"}

\* the card loaded for an entry follows the per-field rules; a field of
\* unexpected shape has its default
LoadedFrom(card, e, today) ==
    /\ card.ease = (IF e.ease.t = "float" THEN e.ease.v
                    ELSE IF e.ease.t = "int" THEN 100 * e.ease.v ELSE DEFAULT_EASE)
    /\ card.interval = (IF e.interval.t = "int" THEN e.interval.v
                        ELSE IF e.interval.t = "float" THEN e.interval.v \div 100
                        ELSE 0)
    /\ card.repetitions = (IF e.repetitions.t = "int" THEN e.repetitions.v ELSE 0)
    /\ card.due = (IF e.due.t = "date" THEN e.due.v ELSE today)
    /\ card.last_reviewed = (IF e.last_reviewed.t = "date" THEN e.last_reviewed.v
                             ELSE None)

EntryStep ==
    (last'.op = "srs_load" /\ disk.cards.state = "mapping") =>
        /\ ~last'.raised
        /\ \A i \in DOMAIN disk.cards.entries :
              LET e == disk.cards.entries[i]
              IN  IF e.shape # "mapping" THEN e.fen \notin Keys(cards')
                  ELSE IF /\ Convertible(e.ease)
                          /\ Convertible(e.interval)
                          /\ Convertible(e.repetitions)
                  THEN /\ e.fen \in Keys(cards')
                       /\ LoadedFrom(Lookup(cards', e.fen), e, now)
                  ELSE \/ e.fen \notin Keys(cards')
                       \/ LoadedFrom(Lookup(cards', e.fen), e, now)

\* C19: loading the card store handles bad values per entry and never fails
\* the whole load: an entry that is not a mapping is dropped, an unparseable
\* due falls back to today, an unparseable last_reviewed becomes absent, and
\* an entry whose ease, interval or repetitions has an unexpected shape is
\* dropped or defaulted while every other entry is loaded.
LoadHandlesEntries == [][EntryStep]_vars

\* a card map as a mapping: position -> card
CardMap(cs) == [f \in Keys(cs) |-> Lookup(cs, f)]

RoundTripStep ==
    /\ (last.op = "save" /\ last'.op = "load") =>
          /\ ~last'.raised
          /\ MapOf(white_tree') = MapOf(white_tree)
          /\ MapOf(black_tree') = MapOf(black_tree)
          /\ Cardinality(Keys(white_tree')) = Len(white_tree')
          /\ Cardinality(Keys(black_tree')) = Len(black_tree')
    /\ (last.op = "srs_save" /\ last'.op = "srs_load") =>
          /\ ~last'.raised
          /\ CardMap(cards') = CardMap(cards)
          /\ Cardinality(Keys(cards')) = Len(cards')

\* C20: for every state built by add_line, sync and schedule, save followed
\* by load on the same store gives the same trees (positions, moves and
\* targets) and the same card set, every card with equal ease, interval,
\* repetitions, due, last_grade (grade 0 and no grade included) and
\* last_reviewed (none included).
SaveLoadRoundTrip == [][RoundTripStep]_vars

\* cards loaded back from the saved document: one graded 0, one never
\* reviewed, in another order than they were created in
SaveLoadRoundTripWitness ==
    /\ last.op = "srs_load"
    /\ ~last.raised
    /\ KeyList(cards) = <<0, 1>>
    /\ CardAt(1).last_grade = 0
    /\ CardAt(1).last_reviewed = now
    /\ CardAt(0).last_grade = None
    /\ CardAt(0).last_reviewed = None
    /\ disk.cards.state = "mapping"
    /\ Len(disk.cards.entries) = 2
    /\ KeyList(white_tree) = <<1, 0>>

\* trees loaded back from the saved documents
TreesRoundTripWitness ==
    /\ last.op = "load"
    /\ ~last.raised
    /\ KeyList(white_tree) = <<0, 1>>
    /\ white_tree[1].moves = Put(EmptyMap, "Na3", 1)
    /\ white_tree[2].moves = Put(EmptyMap, "Nc3", 2)
    /\ Len(black_tree) = 1
    /\ disk.white = save_json(TreeEntries(<<white_tree[2], white_tree[1]>>))

\* -------------------------------------------------------------- statistics
\* the number of cards that satisfy P
HowMany(P(_)) == Cardinality({k \in DOMAIN cards : P(cards[k])})

StatsRight ==
    last.op = "statistics" =>
        LET s       == last.stats
            present == HowMany(LAMBDA c : c.last_grade \in Grades)
            passed  == HowMany(LAMBDA c : c.last_grade \in 3..5)
        IN  /\ s.total_cards = Len(cards)
            /\ s.due_today = HowMany(LAMBDA c : c.due <= last.today)
            /\ s.overdue = HowMany(LAMBDA c : c.due < last.today)
            /\ s.due_within_horizon =
                  HowMany(LAMBDA c : c.due \in last.today..(last.today + s.horizon_days))
            /\ s.last_session_success_rate.den > 0
            /\ IF present = 0 THEN s.last_session_success_rate.num = 0
               ELSE s.last_session_success_rate.num * present =
                       passed * s.last_session_success_rate.den
            /\ s.overdue <= s.due_today
            /\ s.due_today <= s.total_cards

\* C21: statistics(today, horizon_days) returns total_cards = number of
\* cards, due_today = number with due <= today, overdue = number with
\* due < today, due_within_horizon = number with today <= due <= today +
\* horizon_days, and last_session_success_rate = (cards whose last_grade is
\* present and >= 3) / (cards whose last_grade is present, 0 counting as
\* present), 0 when no card was graded; so overdue <= due_today <= total.
StatisticsCounts == StatsRight

\* one card graded 0 and one graded 5: the rate is one half; one is overdue
\* and the other is due later, within the horizon
StatisticsCountsWitness ==
    /\ last.op = "statistics"
    /\ Len(cards) = 2
    /\ cards[1].last_grade = 0
    /\ cards[2].last_grade = 5
    /\ cards[1].due < last.today
    /\ cards[2].due > last.today
    /\ last.stats.overdue = 1
    /\ last.stats.due_today = 1
    /\ last.stats.due_within_horizon = 1
    /\ last.stats.last_session_success_rate = Ratio(1, 2)

\* ------------------------------------------------------------- application
\* the positions a move is played from in sound games
RECURSIVE PositionsBeforeMoves(_)
PositionsBeforeMoves(games) ==
    IF games = << >> THEN {}
    ELSE {w[1] : w \in Written(0, Head(games))} \cup PositionsBeforeMoves(Tail(games))

Persisted(file) == Pairs(LoadTree(file))

\* C23: a launch of the application leaves in each repertoire document every
\* (position, move) entry the document had when the application started, and
\* so does an import.
PersistedEntriesKept ==
    [][/\ Persisted(disk.white) \subseteq Persisted(disk'.white)
       /\ Persisted(disk.black) \subseteq Persisted(disk'.black)]_vars

\* ------------------------------------------------------------- coordinator
\* C25: from the synced start, whatever add_line, sync_with_repertoire,
\* next_card, grade_answer and record_manual_grade do, every card of the
\* scheduler is on a position that is a key of the white or the black tree.
CardsWithinRepertoire ==
    Keys(cards) \subseteq Keys(white_tree) \cup Keys(black_tree)

\* ------------------------------------------------------------------ review
\* the positions next_card can return for a side on a day
Returnable(cs, side, today) ==
    {cs[i].fen : i \in {j \in DOMAIN cs :
                           /\ cs[j].due <= today
                           /\ cs[j].fen \in Keys(TreeOf(side, white_tree, black_tree))}}

\* a cycle: the card next_card returned is graded on the same day
ReviewCycle ==
    (/\ last.op = "next_card"
     /\ last.res # << >>
     /\ last.today = now
     /\ last'.op \in {"grade_answer", "record_manual_grade"}
     /\ last'.fen = last.res[1].fen
     /\ last'.grade # None)
    => /\ Lookup(cards', last'.fen).due > now
       /\ last'.fen \in Returnable(cards, last.side, now)
       /\ Returnable(cards', last.side, now)
              = Returnable(cards, last.side, now) \ {last'.fen}

\* C26: for one side and one day, a cycle that takes next_card and grades the
\* card it returned, with any grade and by either grading call, leaves the
\* card due after today and takes exactly that position out of the positions
\* next_card can return; cycle after cycle, next_card returns no card in the
\* end.
ReviewsRunOut ==
    /\ [][ReviewCycle]_vars
    /\ <>(last.op = "next_card" /\ last.res = << >>)

\* two cards were due and graded in turn, and next_card has nothing left
ReviewsRunOutWitness ==
    /\ last.op = "next_card"
    /\ last.res = << >>
    /\ nsched = 2
    /\ \A i \in DOMAIN cards : cards[i].last_reviewed = now /\ cards[i].due > now

\* ------------------------------------------------------------------- sides
OtherSide(side) == IF side = "white" THEN "black" ELSE "white"

\* next_card for a side gives the same answer before and after the step, for
\* every day asked about
SameNextCard(side) ==
    \A d \in 0..(MaxDay + 1) :
        next_card(cards', white_tree', black_tree', side, d)
            = next_card(cards, white_tree, black_tree, side, d)

\* a grading call that graded: grade_answer past its no-moves return, or
\* record_manual_grade
Graded == last'.op \in {"grade_answer", "record_manual_grade"} /\ last'.grade # None

GradingAcrossSides ==
    Graded =>
        /\ Cardinality({i \in DOMAIN cards' : cards'[i].fen = last'.fen}) = 1
        /\ Lookup(cards', last'.fen) = last'.res[1]
        /\ (/\ last'.op = "grade_answer"
            /\ last'.fen \in Keys(white_tree) \cap Keys(black_tree))
           => LET other  == OtherSide(last'.side)
                  before == next_card(cards, white_tree, black_tree, other, now)
                  after  == next_card(cards', white_tree, black_tree, other, now)
              IN  /\ last'.fen \notin Returnable(cards', other, now)
                  /\ (before # << >> /\ before[1].fen = last'.fen) => after # before
        /\ \A side \in Sides :
               last'.fen \notin Keys(TreeOf(side, white_tree, black_tree))
                   => SameNextCard(side)

\* C27: a position has one card whatever the side: grading a position that
\* is a key of both trees through grade_answer with one side updates that one
\* card, which next_card for the other side then no longer returns today;
\* grading a position that is not a key of a side's tree leaves every answer
\* of next_card for that side as it was.
OneCardForBothSides == [][GradingAcrossSides]_vars

\* white answered the starting position, the only position of the black
\* tree too and until then never graded: next_card for black has nothing left
OneCardForBothSidesWitness ==
    /\ last.op = "grade_answer"
    /\ last.side = "white"
    /\ last.fen = 0
    /\ last.grade # None
    /\ nsched = 1
    /\ Keys(black_tree) = {0}
    /\ 0 \in Keys(white_tree)
    /\ Lookup(cards, 0).last_reviewed = now
    /\ next_card(cards, white_tree, black_tree, "black", now) = << >>

\* black graded by hand a position that only the black tree holds, while a
\* white card is due: next_card for white still returns it
OneSidedGradingWitness ==
    /\ last.op = "record_manual_grade"
    /\ last.fen \in Keys(black_tree) \ Keys(white_tree)
    /\ next_card(cards, white_tree, black_tree, "white", now) # << >>

\* ----------------------------------------------------------------- callers
RepertoireKeys == Keys(white_tree) \cup Keys(black_tree)

\* caller t is inside sync_with_repertoire
InSync(t) == threads.run[t].pc \in {"sync_black", "sync_get"}

\* the step on which the sync of caller t returns
SyncReturns(t) == InSync(t) /\ threads'.run[t].pc = "idle"

SerializedStep ==
    \A t \in Callers :
        (threads.locking /\ InSync(t)) =>
            /\ \A i \in DOMAIN cards :
                   (cards[i].last_grade # None /\ cards[i].fen \in RepertoireKeys)
                       => \E j \in DOMAIN cards' : cards'[j] = cards[i]
            /\ SyncReturns(t) =>
                   /\ Keys(cards') = Keys(white_tree') \cup Keys(black_tree')
                   /\ Cardinality(Keys(cards')) = Len(cards')

\* C24: when the operations of the callers are serialized by the writer
\* lock, no step of a sync drops a graded card of a repertoire position, and
\* at the moment a sync returns the positions that have a card are exactly
\* the keys of the two trees.
SerializedSync == [][SerializedStep]_vars

\* without the lock: while a sync was between reading the tree keys and
\* remove_cards, another caller added a line through a position and graded
\* it; the sync has returned, it removed that graded card, and the position
\* is a key of a tree with no card
RacedSyncWitness ==
    /\ ~threads.locking
    /\ last.op = "sync"
    /\ \E i \in DOMAIN last.res :
          /\ last.res[i].last_grade # None
          /\ last.res[i].fen \in RepertoireKeys
          /\ last.res[i].fen \notin Keys(cards)

\* without the lock: a line added between the read of the keys and
\* remove_cards leaves, at the return of the sync, a key without a card
RacedAddLineWitness ==
    /\ ~threads.locking
    /\ last.op = "sync"
    /\ last.res = << >>
    /\ ~(RepertoireKeys \subseteq Keys(cards))

\* with the lock: a sync has returned with the graded card of a repertoire
\* position in place, next to the new card of another position
SerializedSyncWitness ==
    /\ threads.locking
    /\ last.op = "sync"
    /\ Len(cards) = 2
    /\ Keys(cards) = RepertoireKeys
    /\ \E i \in DOMAIN cards : cards[i].last_grade # None

====
